---- MODULE Spec2Model ----
(***************************************************************************)
(* coin-crab: the subscriber client of crates/ios_lib (event loop,         *)
(* reconnection backoff, message handler, debounce, FFI get_historical_data)*)
(* and the request handler / publisher of crates/server, connected by an   *)
(* MQTT broker with retained messages.                                     *)
(*                                                                         *)
(* Strings are sequences of tokens (<<>> is the empty string), Option<T>   *)
(* is a sequence of length at most one, a HashMap is a function whose      *)
(* domain is the set of present keys.  Time is in milliseconds.            *)
(***************************************************************************)
EXTENDS Integers, Sequences, FiniteSets, TLC

\* ------------------------------------------------------------------ bounds
TickMs == 1000
MaxTime == 3000
ReTickMs == 5000
MaxReTime == 10000
InTickMs == 250
MaxInTime == 750
MsgTickMs == 100
MaxMsgTime == 1300
ConnTickMs == 1000
MaxConnTime == 34000
MaxQueue == 2
MaxTasks == 2
MaxRequests == 2
MaxCalls == 1
MaxClients == 2
MaxColdTime == 6000
MaxPolls == 3
PollTickMs == 450000
MaxPollTime == 1800000
MaxSweepTime == 210000000
MaxPoints == 3

\* -------------------------------------------------------- program constants
debounce_duration == 500
MaxBackoffAttempts == 5
BackoffExpCap == 5
InitSleepMs == 1000
RetrySleepMs == 2000
ChannelCap == 10
ColdTimeoutMs == 5000
ColdPollMs == 100
WarmupMs == 300000
UpdateIntervalMs == 900000
FreshMs == 30000
ReqRetrySleepMs == 5000
max_retry_attempts == 3

\* ------------------------------------------------------------------ values
None == <<>>
Some(x) == <<x>>

Min(a, b) == IF a < b THEN a ELSE b

RECURSIVE Pow2(_)
Pow2(n) == IF n = 0 THEN 1 ELSE 2 * Pow2(n - 1)

\* str::to_uppercase, token by token
UpperTok(tok) ==
    CASE tok = "eth" -> "ETH"
      [] tok = "btc" -> "BTC"
      [] OTHER -> tok

to_uppercase(s) == [i \in DOMAIN s |-> UpperTok(s[i])]

\* symbols the embedder asks for, and symbols other devices request
SymbolArgs == { <<"eth">> }
RequestSymbols == { <<"eth">>, <<"BTC">> }
TimeframeArgs == { <<"7d">> }

LatestTopic == <<"crypto/prices/", "latest">>
RequestTopic == <<"crypto/requests/historical">>

\* format!("crypto/historical/{}/{}", symbol.to_uppercase(), timeframe)
HistTopic(symbol, timeframe) ==
    <<"crypto/historical/">> \o to_uppercase(symbol) \o <<"/">> \o timeframe

\* format!("{}:{}", symbol_str, timeframe_str)
RequestPayload(symbol, timeframe) == symbol \o <<":">> \o timeframe

\* str::split_once(':') : None, or Some((before, after)) around the first ':'
split_once(p) ==
    IF \E i \in DOMAIN p : p[i] = ":"
    THEN LET i == CHOOSE j \in DOMAIN p :
                      p[j] = ":" /\ \A k \in 1..(j - 1) : p[k] # ":"
         IN Some(<<SubSeq(p, 1, i - 1), SubSeq(p, i + 1, Len(p))>>)
    ELSE None

\* upstream data the quote provider may return for a series
DataA == << <<1000, 10>>, <<2000, 11>> >>
DataB == << <<1000, 10>>, <<2000, 12>>, <<3000, 13>> >>
UpstreamData == { DataA, DataB }

HistoricalDataResult(success, data, error, symbol, timeframe) ==
    [success |-> success, data |-> data, error |-> error,
     symbol |-> symbol, timeframe |-> timeframe]

\* instruments of a listing snapshot
SnapA == << [id |-> 1, symbol |-> "BTC", price |-> 50000] >>
SnapB == << [id |-> 1, symbol |-> "BTC", price |-> 50100],
            [id |-> 2, symbol |-> "ETH", price |-> 3000] >>
Snapshots == { SnapA, SnapB }

\* serde_json::to_string: the JSON text of a value, as its kind and content
SeriesJson(r) == [kind |-> "object", body |-> <<r>>]
SnapshotJson(s) == [kind |-> "array", body |-> s]
EmptyPayload == [kind |-> "empty", body |-> <<>>]

\* serde_json::from_str::<HistoricalDataResult>: Some(result) or None on Err
ParseSeries(p) ==
    IF p.kind = "object" /\ Len(p.body) = 1
       /\ DOMAIN p.body[1] = {"success", "data", "error", "symbol", "timeframe"}
    THEN Some(p.body[1])
    ELSE None

\* serde_json::from_str::<Vec<CryptoCurrency>>: Some(vec) or None on Err
ParseSnapshot(p) ==
    IF p.kind = "array"
       /\ \A i \in DOMAIN p.body : DOMAIN p.body[i] = {"id", "symbol", "price"}
    THEN Some(p.body)
    ELSE None

\* data.rs:87-88 : the timeframes and the symbols of the sweeper, in order
SweepTimeframes ==
    << <<"1h">>, <<"24h">>, <<"7d">>, <<"30d">>, <<"90d">>, <<"365d">> >>
SweepSymbols ==
    << <<"BTC">>, <<"ETH">>, <<"ADA">>, <<"SOL">>, <<"DOT">>, <<"MATIC">>,
       <<"LINK">>, <<"XRP">>, <<"LTC">>, <<"BCH">> >>

\* --------------------------------------------------------------- variables
VARIABLES
    now,                     \* Instant::now(), ms
    brokerUp,                \* the broker accepts connections
    MQTT_CLIENT,             \* globals.rs: None or Some(client)
    is_connected,
    connection_attempts,
    latest_prices,
    historical_data,
    price_update_callback,
    last_update_time,
    loopPc,                  \* event loop thread: none, poll, sleep, exited
    delay_secs,
    loopWakeAt,
    session,                 \* the client's network session: down, up
    outbox,                  \* the client's request channel (capacity 10)
    hookCalls,               \* callback invocations made by this client
    lastHookAt,
    consecErrors,            \* poll errors since the last ConnAck or reset
    errDelays,               \* backoff sleeps since the last ConnAck, while no reset
    resetSeen,               \* a reset happened since the last ConnAck
    msgOutcome,              \* what the last handled publish did
    retained,                \* broker: retained payload per topic
    subQueue,                \* broker -> subscriber publishes, FIFO
    reqQueue,                \* broker -> request handler publishes, FIFO
    tasks,                   \* request handler: spawned fetch tasks
    handled,                 \* requests taken from the request topic
    burstFetch,              \* upstream fetches started in the key's burst
    burstPub,                \* retained publishes made for that burst
    ghPc,                    \* get_historical_data caller
    ghSymbol,
    ghTimeframe,
    ghWakeAt,
    ghResult,
    ghPublished,
    ghHit,                   \* the cache entry present when the call began
    ghAtRetry,               \* the cache entry present at the retry lookup
    ghCalls,
    historical_cache,        \* server AppState: "SYMBOL:TIMEFRAME" -> (result, time)
    pubLog,                  \* publishes made by the server's last operation
    pubCall,                 \* arguments and errors of the last snapshot publish
    held,                    \* subscriber mutexes the event loop thread holds
    clientsCreated,          \* MQTTClient::new calls that replaced MQTT_CLIENT
    gcPc,                    \* get_crypto_data caller
    gcStart,
    gcWakeAt,
    gcResult,
    subscribed,              \* subscriptions issued at the last connect ack
    lastConnEvent,           \* last connection-state event the loop handled
    mqtt_client,             \* server AppState.mqtt_client: publisher or dummy
    pubChan,                 \* requests waiting in the publisher's channel
    cache,                   \* server AppState.cache
    last_fetch,              \* server AppState.last_fetch
    pollNextAt,              \* next tick of the listings poller's interval
    lastPoll,                \* outcome of the poller's last iteration
    polls,                   \* iterations of the poller
    httpResp,                \* last response of GET /api/crypto-prices
    bootOutcome,             \* how setup_mqtt_broker ended in main
    swPc,                    \* retention sweeper: warmup, clearing, sleep
    swIdx,                   \* index of its current timeframe
    swSym,                   \* index of the next symbol to clear
    swWakeAt,
    fhCall,                  \* last call of fetch_historical_data_server
    fhResult,                \* and the result it returned
    reqSession,              \* request_handler.rs: the event client's session
    reqSubscribed,           \* the broker holds its subscription
    reqWakeAt,               \* end of its sleep after an error
    mutexOwner,              \* types.rs: holder of the cache and last_fetch locks
    pwPc,                    \* data.rs:42-49: position of the poller's write
    pwSnap,                  \* the snapshot it is writing
    rdPc,                    \* handlers.rs:10-36: position of get_prices
    cacheBy,                 \* number of the poll that wrote the slot
    fetchBy,                 \* number of the poll that wrote last_fetch
    respBy,                  \* the two numbers seen by the last response
    swLastClear,             \* per timeframe, when its last pass began
    swPasses                 \* per timeframe, the number of its passes

subVars == <<MQTT_CLIENT, is_connected, connection_attempts, latest_prices,
             historical_data, price_update_callback, last_update_time,
             loopPc, delay_secs, loopWakeAt, session, outbox, subscribed,
             lastConnEvent>>
connGhost == <<subscribed, lastConnEvent>>
ghostVars == <<hookCalls, lastHookAt, consecErrors, errDelays, resetSeen,
              msgOutcome>>
brokerVars == <<retained, subQueue, reqQueue>>
serverVars == <<tasks, handled, burstFetch, burstPub>>
ghVars == <<ghPc, ghSymbol, ghTimeframe, ghWakeAt, ghResult, ghPublished,
            ghHit, ghAtRetry, ghCalls>>

srvExt == <<historical_cache, pubLog, pubCall>>
gcVars == <<gcPc, gcStart, gcWakeAt, gcResult>>
extVars == <<historical_cache, pubLog, pubCall, held, clientsCreated, gcVars>>
pollVars == <<mqtt_client, pubChan, cache, last_fetch, pollNextAt, lastPoll,
              polls, httpResp, bootOutcome>>
sweepVars == <<swPc, swIdx, swSym, swWakeAt>>
fetchVars == <<fhCall, fhResult>>
srv3Vars == <<pollVars, sweepVars, fetchVars>>
reqConnVars == <<reqSession, reqSubscribed, reqWakeAt>>
lockVars == <<mutexOwner, pwPc, pwSnap, rdPc, cacheBy, fetchBy, respBy>>
sweepGhost == <<swLastClear, swPasses>>
s4Vars == <<reqConnVars, lockVars, sweepGhost>>

vars == <<now, brokerUp, subVars, ghostVars, brokerVars, serverVars, ghVars,
          extVars, srv3Vars, s4Vars>>

Keys == { <<to_uppercase(s), t>> : s \in RequestSymbols, t \in TimeframeArgs }

Init ==
    /\ now = 0
    /\ brokerUp \in BOOLEAN
    /\ MQTT_CLIENT = "None"
    /\ is_connected = FALSE
    /\ connection_attempts = 0
    /\ latest_prices = None
    /\ historical_data = <<>>
    /\ price_update_callback = None
    /\ last_update_time = None
    /\ loopPc = "none"
    /\ delay_secs = 0
    /\ loopWakeAt = 0
    /\ session = "down"
    /\ outbox = <<>>
    /\ hookCalls = 0
    /\ lastHookAt = None
    /\ consecErrors = 0
    /\ errDelays = <<>>
    /\ resetSeen = FALSE
    /\ msgOutcome = "none"
    /\ retained = <<>>
    /\ subQueue = <<>>
    /\ reqQueue = <<>>
    /\ tasks = <<>>
    /\ handled = 0
    /\ burstFetch = [k \in Keys |-> 0]
    /\ burstPub = [k \in Keys |-> 0]
    /\ ghPc = "idle"
    /\ ghSymbol = <<>>
    /\ ghTimeframe = <<>>
    /\ ghWakeAt = 0
    /\ ghResult = None
    /\ ghPublished = FALSE
    /\ ghHit = None
    /\ ghAtRetry = None
    /\ ghCalls = 0
    /\ historical_cache = <<>>
    /\ pubLog = <<>>
    /\ pubCall = None
    /\ held = {}
    /\ clientsCreated = 0
    /\ gcPc = "idle"
    /\ gcStart = 0
    /\ gcWakeAt = 0
    /\ gcResult = None
    /\ subscribed = <<>>
    /\ lastConnEvent = "none"
    /\ mqtt_client = "publisher"
    /\ pubChan = 0
    /\ cache = None
    /\ last_fetch = 0
    /\ pollNextAt = 0
    /\ lastPoll = "none"
    /\ polls = 0
    /\ httpResp = None
    /\ bootOutcome = "ok"
    /\ swPc = "warmup"
    /\ swIdx = 1
    /\ swSym = 1
    /\ swWakeAt = WarmupMs
    /\ fhCall = None
    /\ fhResult = None
    /\ reqSession = "up"
    /\ reqSubscribed = TRUE
    /\ reqWakeAt = 0
    /\ mutexOwner = [l \in {"cache", "last_fetch"} |-> "free"]
    /\ pwPc = "idle"
    /\ pwSnap = None
    /\ rdPc = "idle"
    /\ cacheBy = 0
    /\ fetchBy = 0
    /\ respBy = <<0, 0>>
    /\ swLastClear = [i \in DOMAIN SweepTimeframes |-> None]
    /\ swPasses = [i \in DOMAIN SweepTimeframes |-> 0]

\* ------------------------------------------------------------------ broker
Msg(topic, payload) == [topic |-> topic, payload |-> payload]

\* the subscriber's filters: crypto/prices/latest and crypto/historical/+/+
MatchesSubscription(topic) ==
    \/ topic = LatestTopic
    \/ /\ Len(topic) >= 2
       /\ topic[1] = "crypto/historical/"
       /\ Cardinality({ i \in 2..Len(topic) : topic[i] = "/" }) = 1

\* AsyncClient::publish(topic, qos, retain, payload) as the server calls it
Pub(topic, qos, retain, payload) ==
    [topic |-> topic, qos |-> qos, retain |-> retain, payload |-> payload]

\* a broker that stores an empty retained payload like any other
RetainedAfter_KeepsEmpty(r, topic, payload) ==
    [t \in (DOMAIN r) \cup {topic} |-> IF t = topic THEN payload ELSE r[t]]

\* a retained publish replaces the topic's retained payload; an empty one
\* removes it
RetainedAfter(r, topic, payload) ==
    IF payload.kind = "empty"
    THEN [t \in (DOMAIN r) \ {topic} |-> r[t]]
    ELSE [t \in (DOMAIN r) \cup {topic} |->
            IF t = topic THEN payload ELSE r[t]]

\* live delivery to the subscriber's session
Delivered(q, topic, payload) ==
    IF session = "up" /\ MatchesSubscription(topic)
    THEN Append(q, Msg(topic, payload))
    ELSE q

RECURSIVE SeqOfTopics(_)
SeqOfTopics(S) ==
    IF S = {} THEN <<>>
    ELSE LET t == CHOOSE x \in S : TRUE
         IN <<t>> \o SeqOfTopics(S \ {t})

\* only the snapshot delivered on subscribe
RetainedDelivery_LatestOnly(r) ==
    IF LatestTopic \in DOMAIN r
    THEN << Msg(LatestTopic, r[LatestTopic]) >>
    ELSE <<>>

\* retained messages delivered on subscribe: latest first, then the series
RetainedDelivery(r) ==
    LET hist == { t \in DOMAIN r : t # LatestTopic /\ MatchesSubscription(t) }
        order == (IF LatestTopic \in DOMAIN r THEN <<LatestTopic>> ELSE <<>>)
                 \o SeqOfTopics(hist)
    IN [i \in DOMAIN order |-> Msg(order[i], r[order[i]])]

BrokerToggle ==
    /\ brokerUp' = ~brokerUp
    /\ UNCHANGED <<now, srv3Vars, s4Vars, extVars, subVars, ghostVars, brokerVars,
                   serverVars, ghVars>>

\* -------------------------------------------------------------- subscriber
\* ffi.rs:179-205 : the guard of MQTT_CLIENT.lock() is a temporary of the
\* if-let scrutinee and lives to the end of the block, over the publish of
\* the request and the 2000 ms sleep; the guards of 134 and 163 are gone
\* before the 1000 ms sleep and the publish
GhHolds == IF ghPc = "wait" THEN {"MQTT_CLIENT"} ELSE {}

\* globals.rs:5 : a caller that locks MQTT_CLIENT waits while it is held
ClientSlotFree == "MQTT_CLIENT" \notin GhHolds

\* MQTTClient::new: a fresh client with its own event loop thread
MQTTClient_new ==
    /\ MQTT_CLIENT' = "Some"
    /\ is_connected' = FALSE
    /\ connection_attempts' = 0
    /\ latest_prices' = None
    /\ historical_data' = <<>>
    /\ price_update_callback' = None
    /\ last_update_time' = None
    /\ loopPc' = "poll"
    /\ session' = "down"
    /\ outbox' = <<>>
    /\ subQueue' = <<>>
    /\ consecErrors' = 0
    /\ errDelays' = <<>>
    /\ resetSeen' = FALSE
    /\ lastHookAt' = None
    /\ msgOutcome' = "none"
    /\ hookCalls' = 0
    /\ held' = {}
    /\ subscribed' = <<>>
    /\ lastConnEvent' = "none"
    /\ clientsCreated < MaxClients
    /\ clientsCreated' = clientsCreated + 1
    /\ UNCHANGED <<delay_secs, loopWakeAt>>

\* globals.rs init_mqtt_client
init_mqtt_client ==
    /\ ClientSlotFree
    /\ MQTTClient_new
    /\ UNCHANGED <<now, brokerUp, srv3Vars, s4Vars, srvExt, gcVars, retained, reqQueue,
                   serverVars, ghVars>>

\* ffi.rs:26-45 get_crypto_data creates the client when there is none (its
\* wait and its read of the snapshot change no state)
get_crypto_data_init ==
    /\ ClientSlotFree
    /\ MQTT_CLIENT = "None"
    /\ MQTTClient_new
    /\ UNCHANGED <<now, brokerUp, srv3Vars, s4Vars, srvExt, gcVars, retained, reqQueue,
                   serverVars, ghVars>>

\* the historical subscription left out
Subscriptions_LatestOnly ==
    << [topic |-> LatestTopic, qos |-> 1] >>

\* connection.rs:93-99 : the subscriptions issued on a connect ack
Subscriptions ==
    << [topic |-> LatestTopic, qos |-> 1],
       [topic |-> <<"crypto/historical/", "+", "/", "+">>, qos |-> 0] >>

\* connection.rs handle_connection_success, with the broker's retained
\* delivery for the two subscriptions it issues
handle_connection_success ==
    /\ loopPc = "poll"
    /\ session = "down"
    /\ brokerUp
    /\ session' = "up"
    /\ is_connected' = TRUE
    /\ connection_attempts' = 0
    /\ subscribed' = Subscriptions
    /\ lastConnEvent' = "connack"
    /\ subQueue' = RetainedDelivery(retained)
    /\ consecErrors' = 0
    /\ errDelays' = <<>>
    /\ resetSeen' = FALSE
    /\ UNCHANGED <<now, brokerUp, srv3Vars, s4Vars, extVars, MQTT_CLIENT,
                   latest_prices, historical_data,
                   price_update_callback, last_update_time, loopPc, delay_secs,
                   loopWakeAt, outbox, hookCalls, lastHookAt, msgOutcome,
                   retained, reqQueue, serverVars, ghVars>>

\* the Disconnect event handled without clearing the flag
handle_disconnect_KeepsFlag ==
    /\ loopPc = "poll"
    /\ session = "up"
    /\ UNCHANGED is_connected
    /\ lastConnEvent' = "disconnect"
    /\ UNCHANGED subscribed
    /\ UNCHANGED <<now, brokerUp, srv3Vars, s4Vars, extVars, MQTT_CLIENT,
                   connection_attempts,
                   latest_prices, historical_data, price_update_callback,
                   last_update_time, loopPc, delay_secs, loopWakeAt, session,
                   outbox, ghostVars, brokerVars, serverVars, ghVars>>

\* connection.rs handle_disconnect
handle_disconnect ==
    /\ loopPc = "poll"
    /\ session = "up"
    /\ is_connected' = FALSE
    /\ lastConnEvent' = "disconnect"
    /\ UNCHANGED subscribed
    /\ UNCHANGED <<now, brokerUp, srv3Vars, s4Vars, extVars, MQTT_CLIENT,
                   connection_attempts,
                   latest_prices, historical_data, price_update_callback,
                   last_update_time, loopPc, delay_secs, loopWakeAt, session,
                   outbox, ghostVars, brokerVars, serverVars, ghVars>>

\* the exponent as the comment in the source has it: 2^attempt
BackoffDelay_Comment(attempts) == Pow2(Min(attempts, BackoffExpCap))

\* 2u64.pow((*attempts - 1).min(5))
BackoffDelay(attempts) == Pow2(Min(attempts - 1, BackoffExpCap))

\* giving up one attempt early
KeepTrying_Early(attempts) == attempts < MaxBackoffAttempts

\* *attempts <= 5 : keep retrying
KeepTrying(attempts) == attempts <= MaxBackoffAttempts

\* connection.rs handle_connection_error and the break of the loop
handle_connection_error ==
    /\ loopPc = "poll"
    /\ (session = "up" \/ ~brokerUp)
    /\ is_connected' = FALSE
    /\ lastConnEvent' = "error"
    /\ UNCHANGED subscribed
    /\ session' = "down"
    /\ subQueue' = <<>>
    /\ connection_attempts' = connection_attempts + 1
    /\ consecErrors' = consecErrors + 1
    /\ IF KeepTrying(connection_attempts')
       THEN /\ delay_secs' = BackoffDelay(connection_attempts')
            /\ loopWakeAt' = now + 1000 * delay_secs'
            /\ loopPc' = "sleep"
            /\ errDelays' = IF resetSeen THEN errDelays
                            ELSE Append(errDelays, delay_secs')
            /\ UNCHANGED outbox
       ELSE /\ loopPc' = "exited"
            /\ outbox' = <<>>
            /\ UNCHANGED <<delay_secs, loopWakeAt, errDelays>>
    /\ UNCHANGED <<now, brokerUp, srv3Vars, s4Vars, extVars, MQTT_CLIENT,
                   latest_prices, historical_data,
                   price_update_callback, last_update_time, hookCalls,
                   lastHookAt, resetSeen, msgOutcome, retained, reqQueue,
                   serverVars, ghVars>>

\* the backoff sleep ends and the loop polls again
LoopWake ==
    /\ loopPc = "sleep"
    /\ now >= loopWakeAt
    /\ loopPc' = "poll"
    /\ UNCHANGED <<now, brokerUp, srv3Vars, s4Vars, extVars, MQTT_CLIENT, is_connected,
                   connGhost,
                   connection_attempts, latest_prices, historical_data,
                   price_update_callback, last_update_time, delay_secs,
                   loopWakeAt, session, outbox, ghostVars, brokerVars,
                   serverVars, ghVars>>

\* globals.rs reset_mqtt_connection_attempts / client.rs
\* reset_connection_attempts
reset_connection_attempts ==
    /\ ClientSlotFree
    /\ MQTT_CLIENT = "Some"
    /\ connection_attempts' = 0
    /\ consecErrors' = 0
    /\ resetSeen' = TRUE
    /\ errDelays' = <<>>
    /\ UNCHANGED <<now, brokerUp, srv3Vars, s4Vars, extVars, MQTT_CLIENT, is_connected,
                   connGhost, latest_prices,
                   historical_data, price_update_callback, last_update_time,
                   loopPc, delay_secs, loopWakeAt, session, outbox, hookCalls,
                   lastHookAt, msgOutcome, brokerVars, serverVars, ghVars>>

\* client.rs:109-111 has_exceeded_max_retries :
\* connection_attempts > self.max_retry_attempts
has_exceeded_max_retries == connection_attempts > max_retry_attempts

\* ffi.rs register_price_update_callback
register_price_update_callback ==
    /\ ClientSlotFree
    /\ MQTT_CLIENT = "Some"
    /\ "price_update_callback" \notin held
    /\ price_update_callback' = Some("cb")
    /\ UNCHANGED <<now, brokerUp, srv3Vars, s4Vars, extVars, MQTT_CLIENT, is_connected,
                   connGhost,
                   connection_attempts, latest_prices, historical_data,
                   last_update_time, loopPc, delay_secs, loopWakeAt, session,
                   outbox, ghostVars, brokerVars, serverVars, ghVars>>

\* client.rs is_connected / globals.rs is_mqtt_connected
is_mqtt_connected == MQTT_CLIENT = "Some" /\ is_connected

\* ------------------------------------------------------- message handler
\* the comparison of the debounce test inverted
ShouldUpdate_Inverted(last, t) ==
    IF last # None
    THEN (IF t - last[1] < debounce_duration THEN TRUE ELSE FALSE)
    ELSE TRUE

\* message_handler.rs:65-81 : accept unless the last accepted snapshot is
\* less than debounce_duration old
ShouldUpdate(last, t) ==
    IF last # None
    THEN (IF t - last[1] < debounce_duration THEN FALSE ELSE TRUE)
    ELSE TRUE

\* the slot written only while it is still empty
LatestAfter_FirstOnly(should_update, old, parsed) ==
    IF should_update /\ old = None THEN Some(parsed) ELSE old

\* message_handler.rs:83-84 : the snapshot slot after the debounce decision
LatestAfter(should_update, old, parsed) ==
    IF should_update THEN Some(parsed) ELSE old

\* the callback invoked before looking at the debounce decision
CallbackFires_Always(should_update, callback) ==
    callback # None

\* message_handler.rs:89-94 : the callback runs when accepted and registered
CallbackFires(should_update, callback) ==
    should_update /\ callback # None

\* message_handler.rs:89-91 : the guard of price_update_callback.lock() is a
\* temporary of the if-let scrutinee, alive while callback(..) runs; the
\* guards of last_update_time (66-81) and latest_prices (84) are gone by then
LocksAtCallback == {"price_update_callback"}

\* the stamp moves on every decodable snapshot, rejected ones included
LastTimeAfter_Always(should_update, last, t) ==
    Some(t)

\* message_handler.rs:66-81 : *last_time = Some(now) is written only in the
\* two branches that yield true; the debouncing branch leaves it alone
LastTimeAfter(should_update, last, t) ==
    IF should_update THEN Some(t) ELSE last

\* message_handler.rs handle_latest_prices
handle_latest_prices(payload) ==
    LET parsed == ParseSnapshot(payload) IN
    IF parsed = None
    THEN /\ msgOutcome' = "parse_error"
         /\ UNCHANGED <<latest_prices, last_update_time, hookCalls, lastHookAt,
                        loopPc, held>>
    ELSE LET should_update == ShouldUpdate(last_update_time, now) IN
         /\ last_update_time' =
                LastTimeAfter(should_update, last_update_time, now)
         /\ latest_prices' = LatestAfter(should_update, latest_prices, parsed[1])
         /\ IF CallbackFires(should_update, price_update_callback)
            THEN /\ hookCalls' = hookCalls + 1
                 /\ lastHookAt' = Some(now)
                 /\ held' = LocksAtCallback
                 /\ loopPc' = "in_hook"
            ELSE UNCHANGED <<hookCalls, lastHookAt, loopPc, held>>
         /\ msgOutcome' = IF should_update THEN "accepted" ELSE "debounced"

\* message_handler.rs handle_historical_data
handle_historical_data(topic, payload) ==
    LET parsed == ParseSeries(payload) IN
    IF parsed = None
    THEN /\ msgOutcome' = "parse_error"
         /\ UNCHANGED historical_data
    ELSE /\ historical_data' =
                [t \in (DOMAIN historical_data) \cup {topic} |->
                    IF t = topic THEN parsed[1] ELSE historical_data[t]]
         /\ msgOutcome' = "historical"

\* serde_json::from_str::<CryptoCurrency>: Some(coin) or None on Err
ParseCoin(p) ==
    IF p.kind = "object" /\ Len(p.body) = 1
       /\ DOMAIN p.body[1] = {"id", "symbol", "price"}
    THEN Some(p.body[1])
    ELSE None

\* message_handler.rs handle_individual_price : the parsed instrument is
\* only written to the log
handle_individual_price(topic, payload) ==
    /\ msgOutcome' = IF ParseCoin(payload) = None THEN "parse_error"
                                                  ELSE "individual"
    /\ UNCHANGED <<latest_prices, last_update_time, hookCalls, lastHookAt,
                   historical_data, loopPc, held>>

\* every topic under crypto/prices/ is taken for the snapshot topic
TopicRoute_PrefixLatest(topic) ==
    IF topic[1] = "crypto/prices/" THEN "latest"
    ELSE IF topic[1] = "crypto/historical/" THEN "historical"
    ELSE "unhandled"

\* message_handler.rs:40-48 : topic == "crypto/prices/latest", then
\* starts_with("crypto/historical/"), then starts_with("crypto/prices/")
TopicRoute(topic) ==
    IF topic = LatestTopic THEN "latest"
    ELSE IF topic[1] = "crypto/historical/" THEN "historical"
    ELSE IF topic[1] = "crypto/prices/" THEN "individual"
    ELSE "unhandled"

\* message_handler.rs handle_message, on the Publish event of the loop
handle_message ==
    /\ loopPc = "poll"
    /\ session = "up"
    /\ subQueue # <<>>
    /\ subQueue' = Tail(subQueue)
    /\ LET m == Head(subQueue)
           route == TopicRoute(m.topic) IN
         IF route = "latest"
         THEN /\ handle_latest_prices(m.payload)
              /\ UNCHANGED historical_data
         ELSE IF route = "historical"
         THEN /\ handle_historical_data(m.topic, m.payload)
              /\ UNCHANGED <<latest_prices, last_update_time, hookCalls,
                             lastHookAt, loopPc, held>>
         ELSE IF route = "individual"
         THEN handle_individual_price(m.topic, m.payload)
         ELSE /\ msgOutcome' = "ignored"
              /\ UNCHANGED <<latest_prices, last_update_time, hookCalls,
                             lastHookAt, historical_data, loopPc, held>>
    /\ UNCHANGED <<now, brokerUp, srv3Vars, s4Vars, srvExt, clientsCreated, gcVars,
                   MQTT_CLIENT,
                   is_connected, connGhost, connection_attempts,
                   price_update_callback,
                   delay_secs, loopWakeAt, session, outbox, consecErrors,
                   errDelays, resetSeen, retained, reqQueue, serverVars,
                   ghVars>>

\* message_handler.rs:91-94 : the callback returns, the guard is dropped and
\* the loop polls again
HookReturns ==
    /\ loopPc = "in_hook"
    /\ loopPc' = "poll"
    /\ held' = {}
    /\ UNCHANGED <<now, brokerUp, srv3Vars, s4Vars, srvExt, clientsCreated, gcVars,
                   MQTT_CLIENT,
                   is_connected, connGhost, connection_attempts, latest_prices,
                   historical_data, price_update_callback, last_update_time,
                   delay_secs, loopWakeAt, session, outbox, ghostVars,
                   brokerVars, serverVars, ghVars>>

\* the callback calls register_price_update_callback (ffi.rs), whose
\* set_price_update_callback locks price_update_callback (client.rs:128-131)
\* on the event loop thread; std::sync::Mutex::lock on a mutex its own thread
\* holds never returns: it deadlocks or panics
HookRegisters ==
    /\ loopPc = "in_hook"
    /\ MQTT_CLIENT = "Some"
    /\ IF "price_update_callback" \in held
       THEN /\ \/ loopPc' = "deadlocked" /\ held' = held
               \/ loopPc' = "panicked" /\ held' = {}
            /\ UNCHANGED price_update_callback
       ELSE /\ price_update_callback' = Some("cb")
            /\ UNCHANGED <<loopPc, held>>
    /\ UNCHANGED <<now, brokerUp, srv3Vars, s4Vars, srvExt, clientsCreated, gcVars,
                   MQTT_CLIENT,
                   is_connected, connGhost, connection_attempts, latest_prices,
                   historical_data, last_update_time, delay_secs, loopWakeAt,
                   session, outbox, ghostVars, brokerVars, serverVars, ghVars>>

\* --------------------------------------------------------------- publisher
RECURSIVE InstrumentPublishes_Abort(_, _, _)
\* the loop left at the first instrument that fails
InstrumentPublishes_Abort(snapshot, i, fails) ==
    IF i > Len(snapshot) \/ i \in fails THEN <<>>
    ELSE << Pub(<<"crypto/prices/", snapshot[i].symbol>>, 1, TRUE,
                [kind |-> "object", body |-> <<snapshot[i]>>]) >>
         \o InstrumentPublishes_Abort(snapshot, i + 1, fails)

RECURSIVE InstrumentPublishes(_, _, _)
\* publisher.rs:23-36 : one retained QoS 1 publish per instrument, in
\* snapshot order; an instrument whose serialization or publish fails is
\* skipped and the loop continues
InstrumentPublishes(snapshot, i, fails) ==
    IF i > Len(snapshot) THEN <<>>
    ELSE (IF i \in fails THEN <<>>
          ELSE << Pub(<<"crypto/prices/", snapshot[i].symbol>>, 1, TRUE,
                      [kind |-> "object", body |-> <<snapshot[i]>>]) >>)
         \o InstrumentPublishes(snapshot, i + 1, fails)

\* publisher.rs:8-36 : the publishes that reach the broker, in order; 0 in
\* fails is an Err of the publish on crypto/prices/latest, which is logged
SnapshotPublishes(snapshot, fails) ==
    (IF 0 \in fails THEN <<>>
     ELSE << Pub(LatestTopic, 1, TRUE, SnapshotJson(snapshot)) >>)
    \o InstrumentPublishes(snapshot, 1, fails)

RECURSIVE PublishEach(_, _, _)
\* the broker's retained store after the publishes of a log
PublishEach(r, log, i) ==
    IF i > Len(log) THEN r
    ELSE PublishEach(RetainedAfter(r, log[i].topic, log[i].payload), log, i + 1)

\* publisher.rs publish_crypto_data_to_mqtt
publish_crypto_data_to_mqtt(snapshot, fails) ==
    /\ Len(subQueue) < MaxQueue
    /\ LET log == SnapshotPublishes(snapshot, fails)
       IN /\ pubLog' = log
          /\ pubCall' = Some([snapshot |-> snapshot, fails |-> fails])
          /\ retained' = PublishEach(retained, log, 1)
          /\ subQueue' = IF 0 \in fails THEN subQueue
                         ELSE Delivered(subQueue, LatestTopic,
                                        SnapshotJson(snapshot))
    /\ UNCHANGED <<now, brokerUp, srv3Vars, s4Vars, historical_cache, held,
                   clientsCreated,
                   gcVars, subVars, ghostVars, reqQueue, serverVars, ghVars>>

\* publisher.rs publish_historical_data_to_mqtt : QoS 0, retained
publish_historical_data_to_mqtt(symbol, timeframe, data) ==
    LET topic == HistTopic(symbol, timeframe)
        payload == SeriesJson(data)
    IN /\ retained' = RetainedAfter(retained, topic, payload)
       /\ subQueue' = Delivered(subQueue, topic, payload)
       /\ pubLog' = << Pub(topic, 0, TRUE, payload) >>

\* publisher.rs publish_empty_retained_message : QoS 1, retained, ""
publish_empty_retained_message(topic) ==
    /\ retained' = RetainedAfter(retained, topic, EmptyPayload)
    /\ subQueue' = Delivered(subQueue, topic, EmptyPayload)
    /\ pubLog' = << Pub(topic, 1, TRUE, EmptyPayload) >>

\* topics data.rs clear_mqtt_cache_periodically clears
ClearTopics ==
    { HistTopic(sym, t) : sym \in { <<"BTC">>, <<"ETH">> }, t \in TimeframeArgs }

\* data.rs:106-116 : one clearing publish of the periodic task
clear_mqtt_cache_periodically ==
    /\ Len(subQueue) < MaxQueue
    /\ \E topic \in ClearTopics : publish_empty_retained_message(topic)
    /\ UNCHANGED <<now, brokerUp, srv3Vars, s4Vars, historical_cache, pubCall, held,
                   clientsCreated,
                   gcVars, subVars, ghostVars, reqQueue, serverVars, ghVars>>

\* every timeframe cleared at the default interval
interval_secs_Default(timeframe) == 3600

\* data.rs:93-101 : the sleep after a timeframe's clearing pass
interval_secs(timeframe) ==
    CASE timeframe = <<"1h">> -> 300
      [] timeframe = <<"24h">> -> 3600
      [] timeframe = <<"7d">> -> 7200
      [] timeframe = <<"30d">> -> 21600
      [] timeframe = <<"90d">> -> 86400
      [] timeframe = <<"365d">> -> 86400
      [] OTHER -> 3600

\* every second timeframe left out
NextTimeframe_Skip(i) ==
    IF i + 2 > Len(SweepTimeframes) THEN 1 ELSE i + 2

\* data.rs:90-91 : `for timeframe in &timeframes` inside `loop`: the next
\* timeframe of the list, the first after the last
NextTimeframe(i) ==
    IF i = Len(SweepTimeframes) THEN 1 ELSE i + 1

\* data.rs:85 and 119 : a sleep of the sweeper ends and the pass over the
\* symbols begins for the current timeframe
Sweep_Wake ==
    /\ swPc \in {"warmup", "sleep"}
    /\ now >= swWakeAt
    /\ swPc' = "clearing"
    /\ swSym' = 1
    /\ swLastClear' = [swLastClear EXCEPT ![swIdx] = Some(now)]
    /\ swPasses' = [swPasses EXCEPT ![swIdx] = @ + 1]
    /\ UNCHANGED <<now, brokerUp, pollVars, swIdx, swWakeAt, fetchVars,
                   extVars, subVars, ghostVars, brokerVars, serverVars,
                   ghVars, reqConnVars, lockVars>>

\* data.rs:106-116 : the clearing publish for the next symbol
Sweep_Clear ==
    /\ swPc = "clearing"
    /\ swSym <= Len(SweepSymbols)
    /\ Len(subQueue) < MaxQueue
    /\ IF mqtt_client = "publisher"
       THEN publish_empty_retained_message(
                <<"crypto/historical/">> \o SweepSymbols[swSym] \o <<"/">>
                    \o SweepTimeframes[swIdx])
       ELSE /\ pubLog' = <<>>
            /\ UNCHANGED <<retained, subQueue>>
    /\ swSym' = swSym + 1
    /\ UNCHANGED <<now, brokerUp, pollVars, swPc, swIdx, swWakeAt, fetchVars,
                   historical_cache, pubCall, held, clientsCreated, gcVars,
                   subVars, ghostVars, reqQueue, serverVars, ghVars>>
    /\ UNCHANGED s4Vars

\* data.rs:118-119 and 91 : after the last symbol the task sleeps the
\* timeframe's interval; the next timeframe follows, the first after the last
Sweep_Sleep ==
    /\ swPc = "clearing"
    /\ swSym > Len(SweepSymbols)
    /\ swPc' = "sleep"
    /\ swWakeAt' = now + 1000 * interval_secs(SweepTimeframes[swIdx])
    /\ swIdx' = NextTimeframe(swIdx)
    /\ UNCHANGED <<now, brokerUp, pollVars, swSym, fetchVars, extVars,
                   subVars, ghostVars, brokerVars, serverVars, ghVars>>
    /\ UNCHANGED s4Vars

\* ------------------------------------------------------------------- time
Tick(step, max) ==
    /\ now + step <= max
    /\ now' = now + step
    /\ UNCHANGED <<brokerUp, srv3Vars, s4Vars, extVars, subVars, ghostVars, brokerVars,
                   serverVars, ghVars>>

\* --------------------------------------------------------- request handler
KeyOf(symbol, timeframe) == <<to_uppercase(symbol), timeframe>>

\* a fetch for the key is outstanding: a spawned task has not finished
Outstanding(ts, k) ==
    \E i \in DOMAIN ts : KeyOf(ts[i].symbol, ts[i].timeframe) = k

RemoveAt(q, i) == SubSeq(q, 1, i - 1) \o SubSeq(q, i + 1, Len(q))

\* bytes that are not UTF-8
InvalidUtf8 == <<"0xFF">>

\* request_handler.rs:53 std::str::from_utf8(&payload).unwrap_or("")
from_utf8_or_empty(bytes) ==
    IF \E i \in DOMAIN bytes : bytes[i] = "0xFF" THEN <<>> ELSE bytes

\* request_handler.rs:57 : a request is processed when split_once(':')
\* yields a pair; every such request spawns its own fetch task
SpawnsFetch(payload) == split_once(payload) # None

\* data.rs:230-415 fetch_historical_data_server : the result for what the
\* quote provider answered (ok, data); the symbol is uppercased
fetch_historical_data_server(symbol, timeframe, ok, data) ==
    IF ok
    THEN HistoricalDataResult(TRUE, data, None,
                              Some(to_uppercase(symbol)), Some(timeframe))
    ELSE HistoricalDataResult(FALSE, <<>>, Some("HTTP error"),
                              Some(to_uppercase(symbol)), Some(timeframe))

\* request_handler.rs:50-89 : a Publish on crypto/requests/historical
HandleRequest ==
    /\ reqQueue # <<>>
    /\ Len(tasks) < MaxTasks
    /\ handled < MaxRequests
    /\ handled' = handled + 1
    /\ reqQueue' = Tail(reqQueue)
    /\ pubLog' = <<>>
    /\ LET payload == from_utf8_or_empty(Head(reqQueue))
           parsed == split_once(payload)
       IN IF SpawnsFetch(payload)
          THEN LET symbol == parsed[1][1]
                   timeframe == parsed[1][2]
                   k == KeyOf(symbol, timeframe)
                   fresh == ~Outstanding(tasks, k)
               IN /\ tasks' = Append(tasks, [symbol |-> symbol,
                                             timeframe |-> timeframe,
                                             st |-> "fetching",
                                             result |-> None])
                  /\ IF k \in Keys
                     THEN /\ burstFetch' = [burstFetch EXCEPT ![k] =
                                               (IF fresh THEN 0 ELSE @) + 1]
                          /\ burstPub' = [burstPub EXCEPT ![k] =
                                               IF fresh THEN 0 ELSE @]
                     ELSE UNCHANGED <<burstFetch, burstPub>>
          ELSE UNCHANGED <<tasks, burstFetch, burstPub>>
    /\ UNCHANGED <<now, brokerUp, srv3Vars, s4Vars, historical_cache, pubCall, held,
                   clientsCreated,
                   gcVars, subVars, ghostVars, retained, subQueue, ghVars>>

\* request_handler.rs:65-70 : fetch_historical_data_server returns to the
\* spawned task
FetchReturns(i, ok, data) ==
    /\ i \in DOMAIN tasks
    /\ tasks[i].st = "fetching"
    /\ tasks' = [tasks EXCEPT ![i] =
                    [@ EXCEPT !.st = "fetched",
                              !.result = Some(fetch_historical_data_server(
                                   tasks[i].symbol, tasks[i].timeframe,
                                   ok, data))]]
    /\ UNCHANGED <<now, brokerUp, srv3Vars, s4Vars, extVars, subVars, ghostVars,
                   brokerVars,
                   handled, burstFetch, burstPub, ghVars>>

\* request_handler.rs:72-80 : the task publishes a successful result
PublishHistorical(i) ==
    /\ i \in DOMAIN tasks
    /\ tasks[i].st = "fetched"
    /\ tasks[i].result[1].success
    /\ Len(subQueue) < MaxQueue
    /\ publish_historical_data_to_mqtt(tasks[i].symbol, tasks[i].timeframe,
                                       tasks[i].result[1])
    /\ LET k == KeyOf(tasks[i].symbol, tasks[i].timeframe)
       IN burstPub' = IF k \in Keys
                      THEN [burstPub EXCEPT ![k] = @ + 1]
                      ELSE burstPub
    /\ tasks' = RemoveAt(tasks, i)
    /\ UNCHANGED <<now, brokerUp, srv3Vars, s4Vars, historical_cache, pubCall, held,
                   clientsCreated,
                   gcVars, subVars, ghostVars, reqQueue, handled, burstFetch,
                   ghVars>>

\* a failed fetch that clears the topic's retained message
FetchFailed_Clears(i) ==
    /\ i \in DOMAIN tasks
    /\ tasks[i].st = "fetched"
    /\ ~tasks[i].result[1].success
    /\ tasks' = RemoveAt(tasks, i)
    /\ Len(subQueue) < MaxQueue
    /\ publish_empty_retained_message(
           HistTopic(tasks[i].symbol, tasks[i].timeframe))
    /\ UNCHANGED <<now, brokerUp, srv3Vars, s4Vars, historical_cache, pubCall, held,
                   clientsCreated,
                   gcVars, subVars, ghostVars, reqQueue, handled, burstFetch,
                   burstPub, ghVars>>

\* request_handler.rs:81-83 : a failed fetch is logged and the task ends
FetchFailed(i) ==
    /\ i \in DOMAIN tasks
    /\ tasks[i].st = "fetched"
    /\ ~tasks[i].result[1].success
    /\ tasks' = RemoveAt(tasks, i)
    /\ pubLog' = <<>>
    /\ UNCHANGED <<now, brokerUp, srv3Vars, s4Vars, historical_cache, pubCall, held,
                   clientsCreated,
                   gcVars, subVars, ghostVars, brokerVars, handled, burstFetch,
                   burstPub, ghVars>>

\* the key of the server's historical cache: format!("{}:{}", symbol, timeframe)
cache_key(symbol, timeframe) == RequestPayload(symbol, timeframe)

\* handlers.rs:46-79 GET /api/historical/{symbol}?timeframe= : fetch, cache
\* the result whatever it is, publish it when successful
http_get_historical_data(symbol, timeframe, ok, data) ==
    /\ Len(subQueue) < MaxQueue
    /\ LET result == fetch_historical_data_server(symbol, timeframe, ok, data)
           key == cache_key(symbol, timeframe)
       IN /\ historical_cache' =
                [c \in (DOMAIN historical_cache) \cup {key} |->
                    IF c = key THEN [result |-> result, at |-> now]
                    ELSE historical_cache[c]]
          /\ IF result.success
             THEN publish_historical_data_to_mqtt(symbol, timeframe, result)
             ELSE /\ pubLog' = <<>>
                  /\ UNCHANGED <<retained, subQueue>>
    /\ UNCHANGED <<now, brokerUp, srv3Vars, s4Vars, pubCall, held, clientsCreated,
                   gcVars, subVars,
                   ghostVars, reqQueue, serverVars, ghVars>>

\* request_handler.rs:30-33 : the broker forwards a publish on the request
\* topic to the event client's session while that session holds the
\* subscription made at setup
RequestDelivered(q, payload) ==
    IF reqSession = "up" /\ reqSubscribed THEN Append(q, payload) ELSE q

\* request_handler.rs:90-94 : eventloop.poll() returns Err when the
\* connection is lost; the task logs it and sleeps 5 s. The session was
\* opened with set_clean_session(true) (line 27), so the broker discards its
\* subscription and the publishes queued for it
ReqHandlerError ==
    /\ reqSession = "up"
    /\ reqSession' = "sleep"
    /\ reqSubscribed' = FALSE
    /\ reqWakeAt' = now + ReqRetrySleepMs
    /\ reqQueue' = <<>>
    /\ UNCHANGED <<now, brokerUp, srv3Vars, lockVars, sweepGhost, extVars, subVars, ghostVars,
                   retained, subQueue, serverVars, ghVars>>

\* request_handler.rs:42-46 : the next poll() after the sleep connects again;
\* the ConnAck is only logged, no subscribe is issued (the only one is at
\* line 33, before the loop); a refused connection is another Err and
\* another sleep
ReqHandlerReconnect ==
    /\ reqSession = "sleep"
    /\ now >= reqWakeAt
    /\ IF brokerUp
       THEN /\ reqSession' = "up"
            /\ UNCHANGED <<reqSubscribed, reqWakeAt>>
       ELSE /\ reqWakeAt' = now + ReqRetrySleepMs
            /\ UNCHANGED <<reqSession, reqSubscribed>>
    /\ UNCHANGED <<now, brokerUp, srv3Vars, lockVars, sweepGhost, extVars, subVars, ghostVars,
                   brokerVars, serverVars, ghVars>>

\* another device's subscriber publishes a request on the request topic
OtherClientRequest(symbol, timeframe) ==
    /\ Len(reqQueue) < MaxQueue
    /\ reqQueue' = RequestDelivered(reqQueue, RequestPayload(symbol, timeframe))
    /\ UNCHANGED <<now, brokerUp, srv3Vars, s4Vars, extVars, subVars, ghostVars,
                   retained, subQueue,
                   serverVars, ghVars>>

\* payloads that are not "<SYMBOL>:<TIMEFRAME>" with both parts non-empty
MalformedPayloads ==
    { <<"not-a-request">>, <<"BTC", ":">>, <<":", "7d">>, InvalidUtf8 }

\* any MQTT client publishes bytes on crypto/requests/historical
PublishRequestBytes(payload) ==
    /\ Len(reqQueue) < MaxQueue
    /\ reqQueue' = RequestDelivered(reqQueue, payload)
    /\ UNCHANGED <<now, brokerUp, srv3Vars, s4Vars, extVars, subVars, ghostVars,
                   retained, subQueue,
                   serverVars, ghVars>>

\* ------------------------------------------- fetch_historical_data_server
\* timeframes a caller may pass: the eight the code names, and others
FetchTimeframes ==
    { <<"1h">>, <<"24h">>, <<"1d">>, <<"7d">>, <<"30d">>, <<"90d">>,
      <<"365d">>, <<"1y">>, <<"all">>, <<"2w">>, <<"7D">>, <<>> }

\* data.rs:239-248 : the days of history asked for
TimeframeDays(timeframe) ==
    CASE timeframe = <<"1h">> -> 1
      [] timeframe \in { <<"24h">>, <<"1d">> } -> 1
      [] timeframe = <<"7d">> -> 7
      [] timeframe = <<"30d">> -> 30
      [] timeframe = <<"90d">> -> 90
      [] timeframe \in { <<"365d">>, <<"1y">> } -> 365
      [] timeframe = <<"all">> -> 365
      [] OTHER -> 30

\* every timeframe asked at the default interval
get_interval_for_timeframe_Hourly(timeframe) == "1h"

\* data.rs:217-228 get_interval_for_timeframe
get_interval_for_timeframe(timeframe) ==
    CASE timeframe = <<"1h">> -> "5m"
      [] timeframe \in { <<"24h">>, <<"1d">> } -> "1h"
      [] timeframe = <<"7d">> -> "2h"
      [] timeframe = <<"30d">> -> "6h"
      [] timeframe = <<"90d">> -> "1d"
      [] timeframe \in { <<"365d">>, <<"1y">> } -> "1d"
      [] timeframe = <<"all">> -> "1d"
      [] OTHER -> "1h"

\* a quote of the provider's answer: its timestamp text (None when the field
\* is missing or no string; rfc3339 tells whether the text parses, ms is the
\* instant it denotes) and its USD price (None when missing or no number)
RawPoint(timestamp, price) == [timestamp |-> timestamp, price |-> price]
RawPoints ==
    { RawPoint(Some([rfc3339 |-> TRUE, ms |-> 1000]), Some(10)),
      RawPoint(Some([rfc3339 |-> TRUE, ms |-> 1500]), Some(11)),
      RawPoint(Some([rfc3339 |-> TRUE, ms |-> 2000]), Some(12)),
      RawPoint(Some([rfc3339 |-> FALSE, ms |-> 0]), Some(13)),
      RawPoint(Some([rfc3339 |-> TRUE, ms |-> 3000]), None),
      RawPoint(None, Some(14)) }
RawSeries == UNION { [1..n -> RawPoints] : n \in 0..MaxPoints }

\* answers to the two requests: quotes/latest for the id, quotes/historical
IdResponses ==
    { [kind |-> k] : k \in {"network_error", "http_error", "json_error",
                            "no_symbol", "no_id", "ok"} }
HistResponses ==
    { [kind |-> k, quotes |-> <<>>] :
          k \in {"network_error", "http_error", "json_error", "no_quotes"} }
    \cup { [kind |-> "ok", quotes |-> q] : q \in RawSeries }

\* data.rs:361 chrono DateTime::timestamp : whole seconds
timestamp_secs(ms) == ms \div 1000

\* shared HistoricalDataPoint
HistoricalDataPoint(timestamp, price) == [timestamp |-> timestamp, price |-> price]

RECURSIVE historical_points(_, _)
\* data.rs:348-368 : the points pushed, in the order of the answer; a quote
\* without a timestamp text that parses or without a price is skipped
historical_points(quotes, i) ==
    IF i > Len(quotes) THEN <<>>
    ELSE (IF /\ quotes[i].timestamp # None
             /\ quotes[i].timestamp[1].rfc3339
             /\ quotes[i].price # None
          THEN << HistoricalDataPoint(
                     timestamp_secs(quotes[i].timestamp[1].ms),
                     quotes[i].price[1]) >>
          ELSE <<>>)
         \o historical_points(quotes, i + 1)

\* the series reported as a success whatever it holds
SeriesResult_EmptyOk(points, symbol, timeframe) ==
    HistoricalDataResult(TRUE, points, None, Some(symbol), Some(timeframe))

\* data.rs:370-387 : no point is a failure, else the points as they came
SeriesResult(points, symbol, timeframe) ==
    IF points = <<>>
    THEN HistoricalDataResult(FALSE, <<>>,
                              Some("No historical data points found"),
                              Some(symbol), Some(timeframe))
    ELSE HistoricalDataResult(TRUE, points, None, Some(symbol),
                              Some(timeframe))

\* data.rs:273-319 and 389-413 : the result of a failed request
FailedResult(error, symbol, timeframe) ==
    HistoricalDataResult(FALSE, <<>>, Some(error), Some(symbol),
                         Some(timeframe))

\* data.rs:258-320 : the error that ends the call at the id lookup, or None
IdLookupError(idResp) ==
    CASE idResp.kind = "network_error" -> Some("Network error getting crypto ID")
      [] idResp.kind = "http_error" -> Some("HTTP error getting crypto ID")
      [] idResp.kind = "json_error" -> Some("JSON parsing error")
      [] idResp.kind = "no_symbol" -> Some("Invalid symbol or no data found")
      [] idResp.kind = "no_id" -> Some("Could not find cryptocurrency ID")
      [] OTHER -> None

\* data.rs:337-414 : the result for the answer to the historical request
HistoryResult(histResp, symbol, timeframe) ==
    CASE histResp.kind = "network_error" ->
            FailedResult("Network error", symbol, timeframe)
      [] histResp.kind = "http_error" ->
            FailedResult("HTTP error", symbol, timeframe)
      [] histResp.kind = "json_error" ->
            FailedResult("JSON parsing error", symbol, timeframe)
      [] OTHER ->
            SeriesResult(historical_points(histResp.quotes, 1), symbol,
                         timeframe)

\* data.rs:230-415 : one call, with the provider's answers to its requests;
\* the historical request is made only when the id lookup succeeded
FetchHistory(symbol, timeframe, idResp, histResp) ==
    LET upper == to_uppercase(symbol)
        idError == IdLookupError(idResp)
    IN /\ fhCall' =
             Some([symbol |-> symbol, timeframe |-> timeframe,
                   days |-> TimeframeDays(timeframe),
                   interval |-> IF idError = None
                                THEN Some(get_interval_for_timeframe(timeframe))
                                ELSE None,
                   idResp |-> idResp,
                   histResp |-> IF idError = None THEN Some(histResp) ELSE None])
       /\ fhResult' =
             Some(IF idError # None
                  THEN FailedResult(idError[1], upper, timeframe)
                  ELSE HistoryResult(histResp, upper, timeframe))
       /\ UNCHANGED <<now, brokerUp, pollVars, sweepVars, extVars, subVars,
                      ghostVars, brokerVars, serverVars, ghVars>>
    /\ UNCHANGED s4Vars

\* -------------------------------------------------------- server startup
BootOutcomes == {"ok", "config_missing", "config_unparsable", "start_failed"}

\* broker.rs:14-22 return Err for a missing or unparsable rumqttd.toml and
\* main.rs:791-799 then installs the dummy client, whose event loop is
\* dropped at once; a failing broker.start() is only logged on the broker's
\* thread (broker.rs:25-31) and setup returns Ok with the publisher client,
\* which never gets a connection
BootClient(outcome) ==
    CASE outcome = "ok" -> "publisher"
      [] outcome = "start_failed" -> "unconnected"
      [] OTHER -> "dummy"

\* main.rs:785-809 : the process starts; AppState is built around the client
main(outcome) ==
    /\ now = 0
    /\ polls = 0
    /\ bootOutcome = "ok"
    /\ retained = <<>>
    /\ MQTT_CLIENT = "None"
    /\ bootOutcome' = outcome
    /\ mqtt_client' = BootClient(outcome)
    /\ brokerUp' = (outcome = "ok")
    /\ cache' = None
    /\ last_fetch' = now
    /\ pubChan' = 0
    /\ UNCHANGED <<now, pollNextAt, lastPoll, polls, httpResp, sweepVars,
                   fetchVars, extVars, subVars, ghostVars, brokerVars,
                   serverVars, ghVars>>
    /\ UNCHANGED s4Vars

\* ------------------------------------------------------- listings poller
PollOutcomes ==
    {"ok", "http_429", "http_401", "http_500", "network_error", "parse_error"}

\* the slot emptied by a failed poll
CacheAfterPoll_Clears(outcome, old, snapshot) ==
    IF outcome = "ok" THEN Some(snapshot) ELSE None

\* data.rs:31-77 : only the Ok / 2xx / parsed branch writes the slot
CacheAfterPoll(outcome, old, snapshot) ==
    IF outcome = "ok" THEN Some(snapshot) ELSE old

\* data.rs:47-48 : and the time of the last fetch
LastFetchAfterPoll(outcome, old, t) ==
    IF outcome = "ok" THEN t ELSE old

\* data.rs:53-56 through AppState.mqtt_client: the publisher's publishes
\* reach the broker; the unconnected client's requests wait in its channel
\* until it is full, where the 100 ms timeout abandons the rest; the dummy
\* client's publishes return Err, which publisher.rs only logs
ClientPublishSnapshot(snapshot) ==
    CASE mqtt_client = "publisher" ->
            LET log == SnapshotPublishes(snapshot, {})
            IN /\ pubLog' = log
               /\ retained' = PublishEach(retained, log, 1)
               /\ subQueue' = Delivered(subQueue, LatestTopic,
                                        SnapshotJson(snapshot))
               /\ UNCHANGED pubChan
      [] mqtt_client = "unconnected" ->
            /\ pubChan' = Min(ChannelCap, pubChan + 1 + Len(snapshot))
            /\ pubLog' = <<>>
            /\ UNCHANGED <<retained, subQueue>>
      [] OTHER ->
            /\ pubLog' = <<>>
            /\ UNCHANGED <<retained, subQueue, pubChan>>

\* data.rs:17-78 : one iteration of fetch_data_periodically
fetch_data_periodically(outcome, snapshot) ==
    /\ now >= pollNextAt
    /\ polls < MaxPolls
    /\ Len(subQueue) < MaxQueue
    /\ polls' = polls + 1
    /\ lastPoll' = outcome
    /\ pollNextAt' = pollNextAt + UpdateIntervalMs
    /\ cache' = CacheAfterPoll(outcome, cache, snapshot)
    /\ last_fetch' = LastFetchAfterPoll(outcome, last_fetch, now)
    /\ IF outcome = "ok"
       THEN /\ ClientPublishSnapshot(snapshot)
            /\ pubCall' = Some([snapshot |-> snapshot, fails |-> {}])
       ELSE /\ pubLog' = <<>>
            /\ UNCHANGED <<retained, subQueue, pubChan, pubCall>>
    /\ UNCHANGED <<now, brokerUp, mqtt_client, httpResp, bootOutcome,
                   sweepVars, fetchVars, historical_cache, held,
                   clientsCreated, gcVars, subVars, ghostVars, reqQueue,
                   serverVars, ghVars>>
    /\ UNCHANGED s4Vars

\* types.rs ApiResponse
ApiResponse(data, last_updated, cached) ==
    [data |-> data, last_updated |-> last_updated, cached |-> cached]

\* handlers.rs:8-36 GET /api/crypto-prices
get_prices ==
    /\ httpResp' =
          IF cache # None
          THEN Some(ApiResponse(cache[1], Some(last_fetch),
                                now - last_fetch > FreshMs))
          ELSE Some(ApiResponse(<<>>, None, FALSE))
    /\ UNCHANGED <<now, brokerUp, mqtt_client, pubChan, cache, last_fetch,
                   pollNextAt, lastPoll, polls, bootOutcome, sweepVars,
                   fetchVars, extVars, subVars, ghostVars, brokerVars,
                   serverVars, ghVars>>
    /\ UNCHANGED s4Vars

\* ------------------------------- the two locks of the latest-prices cache
\* the reader taking last_fetch before cache
ReaderLockOrder_Reversed == <<"last_fetch", "cache">>

\* handlers.rs:10-11 : data.cache.lock(), then data.last_fetch.lock()
ReaderLockOrder == <<"cache", "last_fetch">>

\* data.rs:44-47 : state.cache.lock(), then state.last_fetch.lock()
PollerLockOrder == <<"cache", "last_fetch">>

\* the lock a party asks for next, given its position
NextLock(order, pc) == IF pc = "want1" THEN order[1] ELSE order[2]

\* std::sync::Mutex::lock returns once the mutex is free
Acquire(owner, l, who) == [owner EXCEPT ![l] = who]
Release(owner, who) ==
    [l \in DOMAIN owner |-> IF owner[l] = who THEN "free" ELSE owner[l]]

\* data.rs:17-41 : an iteration of the poller whose request succeeded and
\* whose body parsed reaches the scope of lines 43-49
PW_Start(snapshot) ==
    /\ pwPc = "idle"
    /\ now >= pollNextAt
    /\ polls < MaxPolls
    /\ polls' = polls + 1
    /\ lastPoll' = "ok"
    /\ pollNextAt' = pollNextAt + UpdateIntervalMs
    /\ pwSnap' = Some(snapshot)
    /\ pwPc' = "want1"
    /\ UNCHANGED <<now, brokerUp, mqtt_client, pubChan, cache, last_fetch,
                   httpResp, bootOutcome, sweepVars, fetchVars, extVars,
                   subVars, ghostVars, brokerVars, serverVars, ghVars,
                   sweepGhost, reqConnVars, mutexOwner, rdPc, cacheBy, fetchBy, respBy>>

\* data.rs:44-48 : lock, then write what the lock guards
PW_Lock ==
    /\ pwPc \in {"want1", "want2"}
    /\ LET l == NextLock(PollerLockOrder, pwPc) IN
         /\ mutexOwner[l] = "free"
         /\ mutexOwner' = Acquire(mutexOwner, l, "poller")
         /\ IF l = "cache"
            THEN /\ cache' = Some(pwSnap[1])
                 /\ cacheBy' = polls
                 /\ UNCHANGED <<last_fetch, fetchBy>>
            ELSE /\ last_fetch' = now
                 /\ fetchBy' = polls
                 /\ UNCHANGED <<cache, cacheBy>>
    /\ pwPc' = IF pwPc = "want1" THEN "want2" ELSE "both"
    /\ UNCHANGED <<now, brokerUp, mqtt_client, pubChan, pollNextAt, lastPoll,
                   polls, httpResp, bootOutcome, sweepVars, fetchVars,
                   extVars, subVars, ghostVars, brokerVars, serverVars,
                   ghVars, sweepGhost, reqConnVars, pwSnap, rdPc, respBy>>

\* data.rs:49-56 : the scope ends, both guards are dropped, and the snapshot
\* is published
PW_Unlock ==
    /\ pwPc = "both"
    /\ Len(subQueue) < MaxQueue
    /\ mutexOwner' = Release(mutexOwner, "poller")
    /\ pwPc' = "idle"
    /\ pwSnap' = None
    /\ ClientPublishSnapshot(pwSnap[1])
    /\ pubCall' = Some([snapshot |-> pwSnap[1], fails |-> {}])
    /\ UNCHANGED <<now, brokerUp, mqtt_client, cache, last_fetch, pollNextAt,
                   lastPoll, polls, httpResp, bootOutcome, sweepVars,
                   fetchVars, historical_cache, held, clientsCreated, gcVars,
                   subVars, ghostVars, reqQueue, serverVars, ghVars,
                   sweepGhost, reqConnVars, rdPc, cacheBy, fetchBy, respBy>>

\* handlers.rs:8-9 : a GET /api/crypto-prices arrives on a worker
RD_Call ==
    /\ rdPc = "idle"
    /\ rdPc' = "want1"
    /\ UNCHANGED <<now, brokerUp, srv3Vars, extVars, subVars, ghostVars,
                   brokerVars, serverVars, ghVars, sweepGhost, reqConnVars, mutexOwner,
                   pwPc, pwSnap, cacheBy, fetchBy, respBy>>

\* handlers.rs:10-11 : its two locks, in its order
RD_Lock ==
    /\ rdPc \in {"want1", "want2"}
    /\ LET l == NextLock(ReaderLockOrder, rdPc) IN
         /\ mutexOwner[l] = "free"
         /\ mutexOwner' = Acquire(mutexOwner, l, "reader")
    /\ rdPc' = IF rdPc = "want1" THEN "want2" ELSE "both"
    /\ UNCHANGED <<now, brokerUp, srv3Vars, extVars, subVars, ghostVars,
                   brokerVars, serverVars, ghVars, sweepGhost, reqConnVars, pwPc, pwSnap,
                   cacheBy, fetchBy, respBy>>

\* handlers.rs:13-36 : the response is built under both guards, which are
\* dropped when the handler returns
RD_Respond ==
    /\ rdPc = "both"
    /\ httpResp' =
          IF cache # None
          THEN Some(ApiResponse(cache[1], Some(last_fetch),
                                now - last_fetch > FreshMs))
          ELSE Some(ApiResponse(<<>>, None, FALSE))
    /\ respBy' = <<cacheBy, fetchBy>>
    /\ mutexOwner' = Release(mutexOwner, "reader")
    /\ rdPc' = "idle"
    /\ UNCHANGED <<now, brokerUp, mqtt_client, pubChan, cache, last_fetch,
                   pollNextAt, lastPoll, polls, bootOutcome, sweepVars,
                   fetchVars, extVars, subVars, ghostVars, brokerVars,
                   serverVars, ghVars, sweepGhost, reqConnVars, pwPc, pwSnap, cacheBy,
                   fetchBy>>

\* -------------------------------------------------- get_historical_data
\* the lookup without the symbol's uppercase normalisation
LocalLookup_NoUpper(hd, symbol, timeframe) ==
    LET topic == <<"crypto/historical/">> \o symbol \o <<"/">> \o timeframe
    IN IF topic \in DOMAIN hd THEN Some(hd[topic]) ELSE None

\* client.rs:91-94 MQTTClient::get_historical_data
LocalLookup(hd, symbol, timeframe) ==
    LET topic == HistTopic(symbol, timeframe)
    IN IF topic \in DOMAIN hd THEN Some(hd[topic]) ELSE None

\* the error result echoing the normalised symbol instead of the argument
error_result_Upper(symbol, timeframe) ==
    HistoricalDataResult(
        FALSE, <<>>,
        Some("MQTT data not available after request - server may be busy"),
        Some(to_uppercase(symbol)), Some(timeframe))

\* ffi.rs:207-213 error_result
error_result(symbol, timeframe) ==
    HistoricalDataResult(
        FALSE, <<>>,
        Some("MQTT data not available after request - server may be busy"),
        Some(symbol), Some(timeframe))

\* ffi.rs:108-160 : entry; a client that is missing or not connected is
\* replaced by a new one and the caller sleeps 1000 ms
GH_Call(symbol, timeframe) ==
    /\ ghPc \in {"idle", "done"}
    /\ ghCalls < MaxCalls
    /\ now + InitSleepMs + RetrySleepMs <= MaxTime
    /\ ghCalls' = ghCalls + 1
    /\ ghSymbol' = symbol
    /\ ghTimeframe' = timeframe
    /\ ghResult' = None
    /\ ghPublished' = FALSE
    /\ ghAtRetry' = None
    /\ ghHit' = IF MQTT_CLIENT = "Some"
                THEN LocalLookup(historical_data, symbol, timeframe)
                ELSE None
    /\ IF ~is_mqtt_connected
       THEN /\ MQTTClient_new
            /\ ghPc' = "init_sleep"
            /\ ghWakeAt' = now + InitSleepMs
       ELSE /\ ghPc' = "check"
            /\ UNCHANGED <<ghWakeAt, subVars, ghostVars, subQueue, held,
                           clientsCreated>>
    /\ UNCHANGED <<now, brokerUp, srv3Vars, s4Vars, srvExt, gcVars, retained, reqQueue,
                   serverVars>>

\* ffi.rs:159 : the 1000 ms sleep ends
GH_InitWake ==
    /\ ghPc = "init_sleep"
    /\ now >= ghWakeAt
    /\ ghPc' = "check"
    /\ UNCHANGED <<now, brokerUp, srv3Vars, s4Vars, extVars, subVars, ghostVars,
                   brokerVars, serverVars,
                   ghSymbol, ghTimeframe, ghWakeAt, ghResult, ghPublished,
                   ghHit, ghAtRetry, ghCalls>>

\* ffi.rs:162-173 : first lookup in the local cache
GH_Check ==
    /\ ghPc = "check"
    /\ LET hit == LocalLookup(historical_data, ghSymbol, ghTimeframe)
       IN IF hit # None
          THEN /\ ghResult' = hit
               /\ ghPc' = "done"
          ELSE /\ ghPc' = "publish"
               /\ UNCHANGED ghResult
    /\ UNCHANGED <<now, brokerUp, srv3Vars, s4Vars, extVars, subVars, ghostVars,
                   brokerVars, serverVars,
                   ghSymbol, ghTimeframe, ghWakeAt, ghPublished, ghHit,
                   ghAtRetry, ghCalls>>

\* ffi.rs:179-195 with client.rs:113-126 publish_message : the request goes
\* into the client's channel (an exited loop has closed it), then the
\* caller sleeps 2000 ms
GH_Publish ==
    /\ ghPc = "publish"
    /\ Len(outbox) < ChannelCap
    /\ outbox' = IF loopPc = "exited" THEN outbox
                 ELSE Append(outbox, RequestPayload(ghSymbol, ghTimeframe))
    /\ ghPublished' = TRUE
    /\ ghPc' = "wait"
    /\ ghWakeAt' = now + RetrySleepMs
    /\ UNCHANGED <<now, brokerUp, srv3Vars, s4Vars, extVars, MQTT_CLIENT, is_connected,
                   connGhost,
                   connection_attempts, latest_prices, historical_data,
                   price_update_callback, last_update_time, loopPc, delay_secs,
                   loopWakeAt, session, ghostVars, brokerVars, serverVars,
                   ghSymbol, ghTimeframe, ghResult, ghHit, ghAtRetry, ghCalls>>

\* ffi.rs:197-219 : second lookup after the sleep, else the error result
GH_Retry ==
    /\ ghPc = "wait"
    /\ now >= ghWakeAt
    /\ LET hit == LocalLookup(historical_data, ghSymbol, ghTimeframe)
       IN /\ ghAtRetry' = hit
          /\ ghResult' = IF hit # None THEN hit
                         ELSE Some(error_result(ghSymbol, ghTimeframe))
    /\ ghPc' = "done"
    /\ UNCHANGED <<now, brokerUp, srv3Vars, s4Vars, extVars, subVars, ghostVars,
                   brokerVars, serverVars,
                   ghSymbol, ghTimeframe, ghWakeAt, ghPublished, ghHit,
                   ghCalls>>

\* -------------------------------------------------------- get_crypto_data
\* types.rs CryptoClientResult
CryptoClientResult(success, data, error, cached) ==
    [success |-> success, data |-> data, error |-> error, cached |-> cached]

\* ffi.rs:23-52 : entry; without a client one is created and the caller
\* starts to wait, with a client it goes straight to the read
GC_Call ==
    /\ ClientSlotFree
    /\ gcPc = "idle"
    /\ gcResult' = None
    /\ IF MQTT_CLIENT = "None"
       THEN /\ MQTTClient_new
            /\ gcPc' = "wait"
            /\ gcStart' = now
       ELSE /\ gcPc' = "read"
            /\ UNCHANGED <<gcStart, subVars, ghostVars, subQueue, held,
                           clientsCreated>>
    /\ UNCHANGED <<now, brokerUp, srv3Vars, s4Vars, srvExt, gcWakeAt, retained,
                   reqQueue,
                   serverVars, ghVars>>

\* ffi.rs:54-64 : the wait ends when the client is connected or has a
\* snapshot, or after the timeout
GC_WaitOver(connected, latest, elapsed) ==
    connected \/ latest # None \/ elapsed > ColdTimeoutMs

\* ffi.rs:53-67 : one turn of the wait loop
GC_Poll ==
    /\ ClientSlotFree
    /\ gcPc = "wait"
    /\ IF GC_WaitOver(is_connected, latest_prices, now - gcStart)
       THEN /\ gcPc' = "read"
            /\ UNCHANGED gcWakeAt
       ELSE /\ gcPc' = "sleep"
            /\ gcWakeAt' = now + ColdPollMs
    /\ UNCHANGED <<now, brokerUp, srv3Vars, s4Vars, srvExt, held, clientsCreated,
                   gcStart,
                   gcResult, subVars, ghostVars, brokerVars, serverVars,
                   ghVars>>

\* ffi.rs:66 : the 100 ms sleep ends
GC_Wake ==
    /\ gcPc = "sleep"
    /\ now >= gcWakeAt
    /\ gcPc' = "wait"
    /\ UNCHANGED <<now, brokerUp, srv3Vars, s4Vars, srvExt, held, clientsCreated,
                   gcStart,
                   gcWakeAt, gcResult, subVars, ghostVars, brokerVars,
                   serverVars, ghVars>>

\* ffi.rs:73-103 : the snapshot, or the error result
GC_Read ==
    /\ ClientSlotFree
    /\ gcPc = "read"
    /\ gcResult' =
          IF latest_prices # None
          THEN Some(CryptoClientResult(TRUE, latest_prices, None, TRUE))
          ELSE Some(CryptoClientResult(
                      FALSE, None,
                      Some("MQTT connection failed or no data available"),
                      FALSE))
    /\ gcPc' = "done"
    /\ UNCHANGED <<now, brokerUp, srv3Vars, s4Vars, srvExt, held, clientsCreated,
                   gcStart,
                   gcWakeAt, subVars, ghostVars, brokerVars, serverVars,
                   ghVars>>

\* connection.rs:59 eventloop.poll() sends a queued request to the broker,
\* which forwards it to the request handler's session
LoopSend ==
    /\ loopPc = "poll"
    /\ session = "up"
    /\ outbox # <<>>
    /\ Len(reqQueue) < MaxQueue
    /\ outbox' = Tail(outbox)
    /\ reqQueue' = RequestDelivered(reqQueue, Head(outbox))
    /\ UNCHANGED <<now, brokerUp, srv3Vars, s4Vars, extVars, MQTT_CLIENT, is_connected,
                   connGhost,
                   connection_attempts, latest_prices, historical_data,
                   price_update_callback, last_update_time, loopPc, delay_secs,
                   loopWakeAt, session, ghostVars, retained, subQueue,
                   serverVars, ghVars>>

\* ------------------------------------------------ request / response flow
GhSleeping == ghPc \in {"init_sleep", "wait"} /\ now < ghWakeAt

TickHist ==
    /\ (now + TickMs <= MaxTime \/ GhSleeping)
    /\ now' = now + TickMs
    /\ UNCHANGED <<brokerUp, srv3Vars, s4Vars, extVars, subVars, ghostVars, brokerVars,
                   serverVars, ghVars>>

GetHistoricalData == \E s \in SymbolArgs, t \in TimeframeArgs : GH_Call(s, t)
OtherRequest == \E s \in SymbolArgs, t \in TimeframeArgs : OtherClientRequest(s, t)
FetchDone == \E i \in 1..MaxTasks, ok \in BOOLEAN, d \in UpstreamData :
                FetchReturns(i, ok, d)
TaskPublish == \E i \in 1..MaxTasks : PublishHistorical(i)
TaskFail == \E i \in 1..MaxTasks : FetchFailed(i)

Next ==
    \/ get_crypto_data_init
    \/ GetHistoricalData
    \/ GH_InitWake
    \/ GH_Check
    \/ GH_Publish
    \/ GH_Retry
    \/ handle_connection_success
    \/ handle_disconnect
    \/ handle_connection_error
    \/ LoopWake
    \/ handle_message
    \/ LoopSend
    \/ OtherRequest
    \/ HandleRequest
    \/ FetchDone
    \/ TaskPublish
    \/ TaskFail
    \/ TickHist

Spec == Init /\ [][Next]_vars

\* ------------------------------------------- connection manager on its own
TickConn == Tick(ConnTickMs, MaxConnTime)

NextConn ==
    \/ init_mqtt_client
    \/ handle_connection_success
    \/ handle_disconnect
    \/ handle_connection_error
    \/ LoopWake
    \/ reset_connection_attempts
    \/ BrokerToggle
    \/ TickConn

SpecConn == Init /\ [][NextConn]_vars

\* ---------------------------------------------- request handler on its own
AnyRequest == \E s \in RequestSymbols, t \in TimeframeArgs : OtherClientRequest(s, t)

NextReq ==
    \/ AnyRequest
    \/ HandleRequest
    \/ FetchDone
    \/ TaskPublish
    \/ TaskFail

SpecReq == Init /\ [][NextReq]_vars

\* --------------------------------- request handler across a reconnect
TickRe == Tick(ReTickMs, MaxReTime)

NextRe ==
    \/ AnyRequest
    \/ HandleRequest
    \/ FetchDone
    \/ TaskPublish
    \/ TaskFail
    \/ ReqHandlerError
    \/ ReqHandlerReconnect
    \/ TickRe

SpecRe == Init /\ [][NextRe]_vars

\* ------------------------- request handler, HTTP handler and their cache
BadRequest == \E p \in MalformedPayloads : PublishRequestBytes(p)
HttpHistorical == \E s \in SymbolArgs, t \in TimeframeArgs, ok \in BOOLEAN :
                     http_get_historical_data(s, t, ok, DataA)

NextSrv ==
    \/ OtherRequest
    \/ BadRequest
    \/ HttpHistorical
    \/ HandleRequest
    \/ FetchDone
    \/ TaskPublish
    \/ TaskFail

SpecSrv == Init /\ [][NextSrv]_vars

\* ---------------------------------------------- message handler on its own
TickMsg == Tick(MsgTickMs, MaxMsgTime)

PublishSnapshot == \E s \in Snapshots : publish_crypto_data_to_mqtt(s, {})

NextMsg ==
    \/ init_mqtt_client
    \/ handle_connection_success
    \/ register_price_update_callback
    \/ PublishSnapshot
    \/ handle_message
    \/ HookReturns
    \/ HookRegisters
    \/ TickMsg

SpecMsg == Init /\ [][NextMsg]_vars

\* ------------------------------------- any publish the broker may hand over
InboundTopics ==
    { LatestTopic,
      <<"crypto/prices/", "BTC">>,
      HistTopic(<<"BTC">>, <<"1h">>),
      <<"crypto/historical/", "BTC">>,
      RequestTopic,
      <<"other/", "topic">> }

InboundPayloads ==
    { SnapshotJson(SnapA), SnapshotJson(SnapB),
      SeriesJson(HistoricalDataResult(TRUE, DataA, None, Some(<<"BTC">>),
                                      Some(<<"1h">>))),
      [kind |-> "object", body |-> <<SnapA[1]>>],
      [kind |-> "text", body |-> <<"garbage">>],
      EmptyPayload }

\* connection.rs:59-61 : whatever Publish packet eventloop.poll() yields is
\* handed to handle_message, which inspects its topic itself; poll() yields
\* one packet at a time
InboundPublish(topic, payload) ==
    /\ MQTT_CLIENT = "Some"
    /\ session = "up"
    /\ subQueue = <<>>
    /\ subQueue' = Append(subQueue, Msg(topic, payload))
    /\ UNCHANGED <<now, brokerUp, srv3Vars, s4Vars, srvExt, clientsCreated, gcVars,
                   MQTT_CLIENT, is_connected, connGhost, connection_attempts,
                   latest_prices, historical_data, price_update_callback,
                   last_update_time, loopPc, delay_secs, loopWakeAt, session,
                   outbox, ghostVars, retained, reqQueue, serverVars, ghVars,
                   held>>

TickIn == Tick(InTickMs, MaxInTime)

AnyInbound == \E t \in InboundTopics, p \in InboundPayloads : InboundPublish(t, p)

NextIn ==
    \/ init_mqtt_client
    \/ handle_connection_success
    \/ register_price_update_callback
    \/ AnyInbound
    \/ handle_message
    \/ HookReturns
    \/ TickIn

SpecIn == Init /\ [][NextIn]_vars

\* ------------------------- callback registration and the other entry points
NextHook ==
    \/ register_price_update_callback
    \/ get_crypto_data_init
    \/ GetHistoricalData
    \/ GH_InitWake
    \/ GH_Check
    \/ GH_Publish
    \/ GH_Retry
    \/ handle_connection_success
    \/ handle_disconnect
    \/ PublishSnapshot
    \/ handle_message
    \/ HookReturns
    \/ TickHist

SpecHook == Init /\ [][NextHook]_vars

\* ------------------------------------------- snapshot publisher on its own
PublishSnapshotErr ==
    \E s \in Snapshots : \E fails \in SUBSET (0..Len(s)) :
        publish_crypto_data_to_mqtt(s, fails)

NextPub ==
    \/ PublishSnapshotErr
    \/ init_mqtt_client
    \/ handle_connection_success
    \/ handle_message

SpecPub == Init /\ [][NextPub]_vars

\* ------------------------------------ retained series and fresh subscribers
\* the same symbol in two spellings
CaseSymbols == { <<"eth">>, <<"ETH">> }

PublishHistory == \E s \in CaseSymbols, t \in TimeframeArgs, d \in UpstreamData :
                     http_get_historical_data(s, t, TRUE, d)

NextRet ==
    \/ PublishHistory
    \/ clear_mqtt_cache_periodically
    \/ init_mqtt_client
    \/ handle_connection_success
    \/ handle_message

SpecRet == Init /\ [][NextRet]_vars

\* ------------------------------------------------- cold start of a client
TickCold == Tick(ConnTickMs, MaxColdTime)

NextCold ==
    \/ PublishSnapshot
    \/ GC_Call
    \/ GC_Poll
    \/ GC_Wake
    \/ GC_Read
    \/ handle_connection_success
    \/ handle_disconnect
    \/ handle_message
    \/ TickCold

SpecCold == Init /\ [][NextCold]_vars

\* ----------------------------------- fetch_historical_data_server alone
\* a single call, from the state in which none was made
FetchHistoryCall ==
    /\ fhCall = None
    /\ \E symbol \in RequestSymbols, timeframe \in FetchTimeframes,
          idResp \in IdResponses, histResp \in HistResponses :
           FetchHistory(symbol, timeframe, idResp, histResp)

NextFetch == FetchHistoryCall

SpecFetch == Init /\ [][NextFetch]_vars

\* ---------------------------------------------------- retention sweeper
\* time passes until the sweeper's sleep is over
TickSweep ==
    /\ swPc \in {"warmup", "sleep"}
    /\ now < swWakeAt
    /\ swWakeAt <= MaxSweepTime
    /\ now' = swWakeAt
    /\ UNCHANGED <<brokerUp, srv3Vars, s4Vars, extVars, subVars, ghostVars,
                   brokerVars, serverVars, ghVars>>

SweepHistory == \E t \in {<<"1h">>, <<"24h">>} :
                   http_get_historical_data(<<"BTC">>, t, TRUE, DataA)

NextSweep ==
    \/ SweepHistory
    \/ Sweep_Wake
    \/ Sweep_Clear
    \/ Sweep_Sleep
    \/ TickSweep
    \/ init_mqtt_client
    \/ handle_connection_success
    \/ handle_message

SpecSweep == Init /\ [][NextSweep]_vars

\* ------------------------------------- server startup and listings poller
TickPoll == Tick(PollTickMs, MaxPollTime)

Boot == \E outcome \in BootOutcomes : main(outcome)

PollListings == \E outcome \in PollOutcomes, s \in Snapshots :
                   fetch_data_periodically(outcome, s)

NextPoll ==
    \/ Boot
    \/ PollListings
    \/ get_prices
    \/ init_mqtt_client
    \/ handle_connection_success
    \/ handle_message
    \/ TickPoll

SpecPoll == Init /\ [][NextPoll]_vars

\* ------------------------------ poller and price endpoint, lock by lock
PollWrites == \E s \in Snapshots : PW_Start(s)

NextLocks ==
    \/ PollWrites
    \/ PW_Lock
    \/ PW_Unlock
    \/ RD_Call
    \/ RD_Lock
    \/ RD_Respond
    \/ TickPoll

SpecLocks == Init /\ [][NextLocks]_vars

\* the request / response flow under the scheduling the threads get: time
\* passes and the caller's thread runs when its sleep is over
SpecLive == Spec /\ WF_vars(TickHist) /\ WF_vars(GH_Retry)

\* ================================================================= claims
\* the event loop handles a publish on crypto/prices/latest
LatestStep ==
    /\ loopPc = "poll"
    /\ session = "up"
    /\ session' = "up"
    /\ subQueue # <<>>
    /\ subQueue' = Tail(subQueue)
    /\ Head(subQueue).topic = LatestTopic

WindowSatisfied ==
    last_update_time = None \/ now - last_update_time[1] >= 500

IsPrefix(a, b) == Len(a) <= Len(b) /\ a = SubSeq(b, 1, Len(a))

\* C1: while a fetch for a key is outstanding, however many requests for the
\* key are received, exactly one upstream fetch is started and at most one
\* retained publish is made for it.
C1_Coalescing ==
    \A k \in Keys :
        /\ (Outstanding(tasks, k) => burstFetch[k] = 1)
        /\ burstPub[k] <= 1

C3_AcceptedSnapshot ==
    [][(LatestStep /\ ParseSnapshot(Head(subQueue).payload) # None
           /\ WindowSatisfied)
          => /\ latest_prices' = ParseSnapshot(Head(subQueue).payload)
             /\ hookCalls' = hookCalls
                    + (IF price_update_callback # None THEN 1 ELSE 0)]_vars

C3_Witness ==
    /\ msgOutcome = "accepted"
    /\ latest_prices = Some(SnapB)
    /\ hookCalls = 2
    /\ lastHookAt = Some(now)

\* C4: a decodable snapshot handled less than 500 ms after the last accepted
\* one changes neither the local snapshot nor the callback's invocations.
C4_RejectedDropped ==
    [][(LatestStep /\ ParseSnapshot(Head(subQueue).payload) # None
           /\ ~WindowSatisfied)
          => /\ latest_prices' = latest_prices
             /\ hookCalls' = hookCalls
             /\ lastHookAt' = lastHookAt]_vars

C4_Witness ==
    /\ msgOutcome = "debounced"
    /\ price_update_callback # None
    /\ subQueue = <<>>
    /\ LatestTopic \in DOMAIN retained
    /\ latest_prices # None
    /\ latest_prices # Some(retained[LatestTopic].body)

C7_ResetReenters ==
    [][(loopPc = "exited" /\ connection_attempts # 0
           /\ connection_attempts' = 0)
          => loopPc' = "poll"]_vars

\* the retry lookup of get_historical_data
RetryStep == ghPc = "wait" /\ ghPc' = "done"

\* C8: when the response for the requested (symbol, timeframe) is in the
\* local cache at the lookup that ends the wait, get_historical_data
\* returns that successful Series.
C8_RoundTrip ==
    [][RetryStep
          => LET t == HistTopic(ghSymbol, ghTimeframe)
             IN t \in DOMAIN historical_data
                  => /\ ghResult' = Some(historical_data[t])
                     /\ historical_data[t].success
                     /\ historical_data[t].data \in UpstreamData
                     /\ historical_data[t].symbol = Some(to_uppercase(ghSymbol))
                     /\ historical_data[t].timeframe = Some(ghTimeframe)]_vars

C8_Witness ==
    /\ ghPc = "done"
    /\ ghPublished
    /\ handled >= 1
    /\ ghAtRetry # None
    /\ ghResult = ghAtRetry
    /\ ghResult[1].success

\* C9: a call that finds an entry for (uppercase(symbol), timeframe) in the
\* local cache returns a cached Series and publishes no request.
C9_CacheHit ==
    (ghPc = "done" /\ ghHit # None)
        => (ghResult # None /\ ghResult[1].success /\ ~ghPublished)

\* C10 as stated: the failure result carries the error
\* "not available after request".
C10_ErrorText ==
    (ghPc = "done" /\ ghPublished /\ ghAtRetry = None)
        => ghResult = Some(HistoricalDataResult(
                           FALSE, <<>>, Some("not available after request"),
                           Some(ghSymbol), Some(ghTimeframe)))

\* C10: once the request is published the call returns, and when the cache
\* holds no response at the retry lookup it returns success=false, empty
\* data, the error "MQTT data not available after request - server may be
\* busy" and the requested symbol and timeframe.
C10_AlwaysReturns ==
    /\ []((ghPc = "done" /\ ghPublished /\ ghAtRetry = None)
            => ghResult = Some(HistoricalDataResult(
                   FALSE, <<>>,

                                     Some("MQTT data not available after request - server may be busy"),
                   Some(ghSymbol), Some(ghTimeframe))))
    /\ ((ghPc = "wait") ~> (ghPc = "done"))

C10_Witness ==
    /\ ghPc = "done"
    /\ ghPublished
    /\ ghAtRetry = None
    /\ ghResult # None
    /\ ~ghResult[1].success

\* the request handler takes a publish from the request topic
RequestStep ==
    /\ reqQueue # <<>>
    /\ reqQueue' = Tail(reqQueue)
    /\ handled' = handled + 1

\* "<SYMBOL>:<TIMEFRAME>" with a non-empty symbol and a non-empty timeframe
WellFormed(bytes) ==
    LET parsed == split_once(from_utf8_or_empty(bytes))
    IN parsed # None /\ parsed[1][1] # <<>> /\ parsed[1][2] # <<>>

\* the spawned task i ends with the given outcome of its fetch
TaskEnds(i, success) ==
    /\ i \in DOMAIN tasks
    /\ tasks[i].st = "fetched"
    /\ tasks[i].result[1].success = success
    /\ tasks' = RemoveAt(tasks, i)

\* the server cache's successful entry for a request, under the key as
\* requested or with the symbol uppercased
CachedSeries(bytes) ==
    LET parsed == split_once(from_utf8_or_empty(bytes))
        keys == IF parsed = None THEN {}
                ELSE { cache_key(parsed[1][1], parsed[1][2]),
                       cache_key(to_uppercase(parsed[1][1]), parsed[1][2]) }
    IN { historical_cache[k].result :
            k \in { c \in keys \cap DOMAIN historical_cache :
                        historical_cache[c].result.success } }

\* C13: a payload on the request topic that is not "<SYMBOL>:<TIMEFRAME>"
\* with both parts non-empty starts no fetch task and makes no publish.
C13_MalformedDropped ==
    [][(RequestStep /\ ~WellFormed(Head(reqQueue)))
          => (tasks' = tasks /\ pubLog' = <<>> /\ retained' = retained)]_vars

\* C17: a request whose key has a successful entry in the server's
\* historical cache starts no fetch task and republishes the cached Series.
C17_CacheCheck ==
    [][(RequestStep /\ WellFormed(Head(reqQueue))
           /\ CachedSeries(Head(reqQueue)) # {})
          => /\ tasks' = tasks
             /\ Len(pubLog') = 1
             /\ ParseSeries(pubLog'[1].payload) \in
                    { Some(r) : r \in CachedSeries(Head(reqQueue)) }]_vars

\* C18: when a request's task publishes its successful Series, the server's
\* historical cache holds that Series under "<SYMBOL>:<TIMEFRAME>".
C18_CacheThenPublish ==
    [][\A i \in 1..MaxTasks :
          TaskEnds(i, TRUE)
             => LET key == cache_key(to_uppercase(tasks[i].symbol),
                                     tasks[i].timeframe)
                IN /\ key \in DOMAIN historical_cache'
                   /\ historical_cache'[key].result = tasks[i].result[1]]_vars

\* C19: a task whose fetch failed ends without a publish, and leaves the
\* server's historical cache, the retained messages and the subscribers'
\* deliveries as they were.
C19_FailedFetch ==
    [][(\E i \in 1..MaxTasks : TaskEnds(i, FALSE))
          => /\ pubLog' = <<>>
             /\ retained' = retained
             /\ subQueue' = subQueue
             /\ historical_cache' = historical_cache]_vars

C19_Witness ==
    /\ tasks = <<>>
    /\ \E k \in Keys :
          /\ burstFetch[k] = 1
          /\ burstPub[k] = 0
          /\ HistTopic(k[1], k[2]) \in DOMAIN retained
    /\ historical_cache # <<>>
    /\ pubLog = <<>>

SubscribeStep == session = "down" /\ session' = "up"

C14_ColdStart ==
    (/\ gcPc = "done"
     /\ last_update_time # None
     /\ last_update_time[1] - gcStart <= 2000
     /\ session = "up")
        => (gcResult[1].success /\ gcResult[1].data \in { Some(x) : x \in Snapshots })

\* C16: the process-wide client is created at most once.
C16_Singleton == clientsCreated <= 1

\* C15: while the callback runs the event loop thread holds none of the
\* client's mutexes, and the thread is never stuck or killed on one of them.
C15_HookOutsideLocks ==
    /\ (loopPc = "in_hook" => held = {})
    /\ loopPc \notin {"deadlocked", "panicked"}

\* one iteration of the listings poller
PollStep == polls' = polls + 1

\* C21: a failed listings poll leaves the snapshot slot and the last-fetch
\* time as they were and publishes nothing, the next poll comes one interval
\* later as after a success, and GET /api/crypto-prices answers with the
\* snapshot in the slot.
C21_FailedPoll ==
    /\ [][PollStep /\ lastPoll' # "ok" =>
             /\ cache' = cache
             /\ last_fetch' = last_fetch
             /\ pubLog' = <<>>
             /\ retained' = retained
             /\ subQueue' = subQueue
             /\ pubChan' = pubChan]_vars
    /\ [][PollStep => pollNextAt' = pollNextAt + UpdateIntervalMs]_vars
    /\ [][httpResp' # httpResp /\ cache # None =>
             httpResp'[1].data = cache[1]]_vars

C21_Witness ==
    /\ lastPoll = "http_429"
    /\ polls = 2
    /\ cache = Some(SnapA)
    /\ last_fetch = 0
    /\ now >= UpdateIntervalMs
    /\ httpResp = Some(ApiResponse(SnapA, Some(0), TRUE))
    /\ pubLog = <<>>

\* C22: when the broker did not start, the dummy client is installed, no
\* publish waits in a client's channel or reaches a broker, and a
\* successful poll still fills the snapshot slot.
C22_Fallback ==
    bootOutcome # "ok" =>
        /\ mqtt_client = "dummy"
        /\ pubChan = 0
        /\ retained = <<>>
        /\ (lastPoll = "ok" => cache # None)

\* the intervals of the sweeper's timeframes, in seconds
SweepIntervals == <<300, 3600, 7200, 21600, 86400, 86400>>

\* the sweeper's timeframes, in the order of its cycle
SweepOrder == <<"1h", "24h", "7d", "30d", "90d", "365d">>

\* the ten seed symbols
SeedSymbols == <<"BTC", "ETH", "ADA", "SOL", "DOT", "MATIC", "LINK", "XRP",
                 "LTC", "BCH">>

C23_WitnessCycle ==
    /\ swPc = "clearing"
    /\ swIdx = 1
    /\ swSym = 11
    /\ now = 1000 * (300 + 300 + 3600 + 7200 + 21600 + 86400 + 86400)

\* the (days, interval) pair the timeframe stands for
DaysInterval(timeframe) ==
    CASE timeframe = <<"1h">> -> <<1, "5m">>
      [] timeframe = <<"24h">> -> <<1, "1h">>
      [] timeframe = <<"1d">> -> <<1, "1h">>
      [] timeframe = <<"7d">> -> <<7, "2h">>
      [] timeframe = <<"30d">> -> <<30, "6h">>
      [] timeframe = <<"90d">> -> <<90, "1d">>
      [] timeframe = <<"365d">> -> <<365, "1d">>
      [] timeframe = <<"1y">> -> <<365, "1d">>
      [] timeframe = <<"all">> -> <<365, "1d">>
      [] OTHER -> <<30, "1h">>

Usable(q) == q.timestamp # None /\ q.timestamp[1].rfc3339 /\ q.price # None

\* C25: a returned Series is a success exactly when it has data; a success
\* has no error, a failure has an error and no data; an answer none of
\* whose quotes is usable is the failure "No historical data points found".
C25_SeriesShape ==
    fhResult # None =>
        LET r == fhResult[1] IN
        /\ (r.success <=> r.data # <<>>)
        /\ (r.success => r.error = None)
        /\ (~r.success => r.error # None /\ r.data = <<>>)
        /\ (/\ fhCall[1].histResp # None
            /\ fhCall[1].histResp[1].kind = "ok"
            /\ \A i \in DOMAIN fhCall[1].histResp[1].quotes :
                  ~Usable(fhCall[1].histResp[1].quotes[i])
            => r.error = Some("No historical data points found"))

C25_Witness ==
    /\ fhResult # None
    /\ ~fhResult[1].success
    /\ fhResult[1].error = Some("No historical data points found")
    /\ fhResult[1].data = <<>>
    /\ fhCall[1].histResp # None
    /\ Len(fhCall[1].histResp[1].quotes) = 2

\* C26: the data of a successful Series is strictly increasing in timestamp.
C26_Monotone ==
    (fhResult # None /\ fhResult[1].success) =>
        \A i, j \in DOMAIN fhResult[1].data :
            i < j => fhResult[1].data[i].timestamp < fhResult[1].data[j].timestamp

\* C27: every key of the server's historical cache and every retained
\* historical topic is formed from the uppercased symbol and the timeframe,
\* so the spellings of one symbol share one key and one topic.
C27_SymbolNormalized ==
    /\ \A k \in DOMAIN historical_cache :
          \E sym \in CaseSymbols, t \in TimeframeArgs :
             k = to_uppercase(sym) \o <<":">> \o t
    /\ \A topic \in DOMAIN retained :
          \E sym \in CaseSymbols, t \in TimeframeArgs :
             topic = <<"crypto/historical/">> \o to_uppercase(sym) \o <<"/">> \o t

\* C28: a thread that sleeps holds no mutex: not the caller of
\* get_historical_data in its sleeps, not the event loop in its backoff.
C28_NoLockAcrossWait ==
    /\ (ghPc \in {"init_sleep", "wait"} => GhHolds = {})
    /\ (loopPc = "sleep" => held = {})

\* a poll error handled by the event loop
ErrorStep == consecErrors' = consecErrors + 1

C30_ConnectedFlag ==
    MQTT_CLIENT = "Some" => (is_connected <=> lastConnEvent = "connack")

C30_Witness ==
    /\ MQTT_CLIENT = "Some"
    /\ lastConnEvent = "disconnect"
    /\ ~is_connected
    /\ session = "up"
    /\ subscribed # <<>>

\* the flag is down after a poll error that followed a connect ack
C30_WitnessError ==
    /\ MQTT_CLIENT = "Some"
    /\ lastConnEvent = "error"
    /\ ~is_connected
    /\ subscribed # <<>>

\* C31: the debounce reference point advances only on acceptance: a rejected
\* snapshot leaves the stamp of the last accepted one unchanged, so a
\* snapshot handled at least 500 ms after the last accepted one is accepted
\* whatever number of rejected snapshots came in between.
C31_ReferencePoint ==
    [][(LatestStep /\ ParseSnapshot(Head(subQueue).payload) # None)
          => /\ (~WindowSatisfied => /\ last_update_time' = last_update_time
                                      /\ msgOutcome' = "debounced")
             /\ (WindowSatisfied => /\ last_update_time' = Some(now)
                                     /\ msgOutcome' = "accepted")
       ]_vars

\* a snapshot was rejected after the last accepted one, the stamp is still
\* that of the accepted one, 500 ms have passed since it and the next
\* snapshot is about to be handled
C31_Witness ==
    /\ msgOutcome = "debounced"
    /\ last_update_time # None
    /\ last_update_time = lastHookAt
    /\ now - last_update_time[1] >= 500
    /\ loopPc = "poll"
    /\ session = "up"
    /\ subQueue # <<>>
    /\ Head(subQueue).topic = LatestTopic
    /\ ParseSnapshot(Head(subQueue).payload) # None

\* the event loop handles a publish, whatever its topic
HandleStep ==
    /\ loopPc = "poll"
    /\ session = "up"
    /\ session' = "up"
    /\ subQueue # <<>>
    /\ subQueue' = Tail(subQueue)

\* a decodable snapshot on crypto/prices/latest or a decodable series on a
\* topic under crypto/historical/
Relevant(m) ==
    \/ m.topic = LatestTopic /\ ParseSnapshot(m.payload) # None
    \/ m.topic[1] = "crypto/historical/" /\ ParseSeries(m.payload) # None

\* C32: handling any other publish (undecodable or empty payload, a
\* per-instrument topic crypto/prices/<SYMBOL>, any other topic) leaves the
\* local snapshot, the local series cache and the debounce stamp unchanged
\* and does not invoke the callback.
C32_OtherPublishes ==
    [][(HandleStep /\ ~Relevant(Head(subQueue)))
          => /\ latest_prices' = latest_prices
             /\ historical_data' = historical_data
             /\ last_update_time' = last_update_time
             /\ hookCalls' = hookCalls
             /\ lastHookAt' = lastHookAt
             /\ loopPc' = "poll"]_vars

\* a per-instrument publish was handled by a client that holds a snapshot, a
\* series and a registered callback
C32_Witness ==
    /\ msgOutcome = "individual"
    /\ latest_prices = Some(SnapB)
    /\ historical_data # <<>>
    /\ price_update_callback # None
    /\ last_update_time # None
    /\ now - last_update_time[1] >= 500

\* C33: in every connected period of the request handler, the first one and
\* each one after an error, the 5 s sleep and the reconnect, its subscription
\* to crypto/requests/historical is in effect, so that a well-formed request
\* published then is delivered to it and triggers a fetch.
C33_SubscribedWhenConnected ==
    reqSession = "up" => reqSubscribed

\* the subscriber is connected and has handled every publish delivered to it
Drained ==
    /\ MQTT_CLIENT = "Some"
    /\ session = "up"
    /\ loopPc = "poll"
    /\ subQueue = <<>>

\* C34: when the publisher has stopped after a finite sequence of snapshots
\* and a connected subscriber has handled all of them, the subscriber's
\* local snapshot equals the last snapshot published.
C34_Convergence ==
    (Drained /\ LatestTopic \in DOMAIN retained)
        => latest_prices = ParseSnapshot(retained[LatestTopic])

\* C35: a registered callback stays registered: once
\* register_price_update_callback has stored it, it remains the callback of
\* the client the event loop serves, so that every snapshot accepted
\* afterwards invokes it, whatever calls of get_crypto_data and
\* get_historical_data are interleaved.
C35_HookStaysRegistered ==
    [][price_update_callback # None => price_update_callback' # None]_vars

\* C36: has_exceeded_max_retries() returns true exactly when the event loop
\* of the client has exited because its retries were exhausted.
C36_RetriesExhausted ==
    MQTT_CLIENT = "Some" => (has_exceeded_max_retries <=> loopPc = "exited")

\* the retained per-instrument topics of the broker
InstrumentTopics ==
    { t \in DOMAIN retained : t[1] = "crypto/prices/" /\ t # LatestTopic }

\* the per-instrument publish of the i-th instrument of a snapshot
InstrumentTopic(snapshot, i) == <<"crypto/prices/", snapshot[i].symbol>>
InstrumentJson(snapshot, i) == [kind |-> "object", body |-> <<snapshot[i]>>]

\* C37: after a successful listings poll with a connected publisher session
\* the snapshot in the latest-prices cache is the one retained on
\* crypto/prices/latest and on the per-symbol topic of every instrument in
\* it, and the broker's retained per-symbol values all come from that same
\* snapshot.
C37_CacheBusConsistent ==
    (lastPoll = "ok" /\ mqtt_client = "publisher" /\ cache # None)
        => /\ LatestTopic \in DOMAIN retained
           /\ retained[LatestTopic] = SnapshotJson(cache[1])
           /\ \A i \in DOMAIN cache[1] :
                 /\ InstrumentTopic(cache[1], i) \in DOMAIN retained
                 /\ retained[InstrumentTopic(cache[1], i)]
                        = InstrumentJson(cache[1], i)
           /\ \A t \in InstrumentTopics :
                 \E i \in DOMAIN cache[1] :
                     /\ t = InstrumentTopic(cache[1], i)
                     /\ retained[t] = InstrumentJson(cache[1], i)

\* C38: every entry of the server's historical cache is a successful Series:
\* after any sequence of HTTP historical requests and bus requests no cached
\* value has success = false.
C38_CacheOnlySuccess ==
    \A k \in DOMAIN historical_cache : historical_cache[k].result.success

\* the lock a party is waiting for is held by the other party, which in turn
\* waits for a lock held by the first
LockDeadlock ==
    /\ pwPc \in {"want1", "want2"}
    /\ rdPc \in {"want1", "want2"}
    /\ mutexOwner[NextLock(PollerLockOrder, pwPc)] = "reader"
    /\ mutexOwner[NextLock(ReaderLockOrder, rdPc)] = "poller"

\* C39: the poller replaces the snapshot slot and the last-fetch time
\* atomically with respect to GET /api/crypto-prices: a reader that holds
\* its locks, and every response, sees the slot and the time written by the
\* same poll; and poller and reader never wait for each other's lock.
C39_AtomicReplace ==
    /\ (rdPc = "both" => cacheBy = fetchBy)
    /\ respBy[1] = respBy[2]
    /\ ~LockDeadlock

\* the poller has replaced the slot in its second poll and not yet the time,
\* while a reader waits for its first lock
C39_Witness ==
    /\ pwPc = "want2"
    /\ polls = 2
    /\ cacheBy = 2
    /\ fetchBy = 1
    /\ rdPc = "want1"
    /\ mutexOwner["cache"] = "poller"
    /\ respBy = <<1, 1>>

\* the sum of the six intervals, in ms
SweepPeriodMs ==
    1000 * (SweepIntervals[1] + SweepIntervals[2] + SweepIntervals[3]
            + SweepIntervals[4] + SweepIntervals[5] + SweepIntervals[6])

\* a pass of the sweeper over the symbols begins
PassBegins == swPc # "clearing" /\ swPc' = "clearing"

====
